---- MODULE Spec2Model ----
(***************************************************************************)
(* A model of SimpleDB: the page codec of the B+Tree (btree/bnode.go), the *)
(* copy-on-write tree (btree.go), the in-memory test Container, and the    *)
(* file-backed KeyValue store with its free list and commit protocol       *)
(* (database/*.go).                                                        *)
(*                                                                         *)
(* A byte slice is a record [nil, len, cap, b, err]: len and cap are Go's  *)
(* len() and cap(); b maps the offsets of the backing array that hold a    *)
(* non-zero byte to that byte (every other offset reads 0); err is the     *)
(* message of the panic raised while the slice was being built ("" when    *)
(* none).  A panic is sticky: an operator handed a value whose err is set  *)
(* returns it unchanged, which is how the abort of the Go program skips    *)
(* the rest of the handler.                                                *)
(***************************************************************************)
EXTENDS Integers, Sequences, FiniteSets, TLC

\* ------------------------------------------------------------------------
\* Program constants
\* ------------------------------------------------------------------------
BNODE_NODE == 1
BNODE_LEAF == 2
HEADER == 4
BTREE_PAGE_SIZE == 4096
BTREE_MAX_KEY_SIZE == 1000
BTREE_MAX_VAL_SIZE == 3000
BNODE_FREE_LIST == 3
FREE_LIST_HEADER == 4 + 8 + 8
FREE_LIST_CAP == (BTREE_PAGE_SIZE - FREE_LIST_HEADER) \div 8
\* "TreeVaultDB": 11 bytes
DB_SIG == <<84, 114, 101, 101, 86, 97, 117, 108, 116, 68, 66>>
\* 64 << 20, the size of the first mapping
MMAP_INIT_SIZE == 67108864

\* ------------------------------------------------------------------------
\* Bounds of the model
\* ------------------------------------------------------------------------
\* mutating calls and opens per behaviour of the file-backed store
MaxOps == 5
\* keys and values are one byte long; NKeys and NVals are how many there are
NKeys == 2
NVals == 2
\* calls per behaviour of the test Container
MaxCalls == 4
\* calls per behaviour of the store when the inputs are of every size class
MaxInputOps == 4
\* slots of the root leaf a long-lived Container starts from
GrownSlots == 408

Keys == {<<k>> : k \in 1..NKeys}
Vals == {<<100 + v>> : v \in 1..NVals}

\* ------------------------------------------------------------------------
\* Byte slices
\* ------------------------------------------------------------------------
NoBytes == [i \in {} |-> 0]

NilData == [nil |-> TRUE, len |-> 0, cap |-> 0, b |-> NoBytes, err |-> ""]

\* make([]byte, n): n zero bytes, capacity n
make(n) == [nil |-> FALSE, len |-> n, cap |-> n, b |-> NoBytes, err |-> ""]

Fail(d, msg) == IF d.err # "" THEN d ELSE [d EXCEPT !.err = msg]

U16(x) == x % 65536

Le16(v) == <<v % 256, (v \div 256) % 256>>

\* the ids and counts of the model stay below 2^24: bytes 3..7 are zero
Le64(v) == <<v % 256, (v \div 256) % 256, (v \div 65536) % 256, 0, 0, 0, 0, 0>>

Byte(d, i) == IF i \in DOMAIN d.b THEN d.b[i] ELSE 0

Uint16(d, pos) == Byte(d, pos) + 256 * Byte(d, pos + 1)

Uint64(d, pos) == Byte(d, pos) + 256 * Byte(d, pos + 1) + 65536 * Byte(d, pos + 2)

\* the bytes d[pos : pos+n] as a sequence
Slice(d, pos, n) == [i \in 1..n |-> Byte(d, pos + i - 1)]

\* store the bytes s at offset pos of the backing array (no bounds check)
Write(d, pos, s) ==
    LET hit == {pos + i - 1 : i \in DOMAIN s}
        set == {pos + i - 1 : i \in {j \in DOMAIN s : s[j] # 0}}
        dom == (DOMAIN d.b \ hit) \cup set
    IN [d EXCEPT !.b = [i \in dom |-> IF i \in hit THEN s[i - pos + 1] ELSE d.b[i]]]

\* binary.LittleEndian.PutUintNN(d[pos:], v): panics when fewer than Len(s)
\* bytes are left
PutAt(d, pos, s) ==
    IF d.err # "" THEN d
    ELSE IF pos > d.len \/ d.len - pos < Len(s) THEN Fail(d, "index out of range")
    ELSE Write(d, pos, s)

\* copy(d[pos:], s): copies min(len(d) - pos, len(s)) bytes
CopyAt(d, pos, s) ==
    IF d.err # "" THEN d
    ELSE IF pos > d.len THEN Fail(d, "slice bounds out of range")
    ELSE LET n == IF d.len - pos < Len(s) THEN d.len - pos ELSE Len(s)
         IN Write(d, pos, SubSeq(s, 1, n))

\* binary.LittleEndian.AppendUintNN(d[pos:], v) with the returned slice dropped:
\* append stores past len(d) when the backing array has room, and otherwise
\* fills a new array that nobody keeps; d[0:len] is unchanged either way
AppendDropped(d, pos, s) ==
    IF d.err # "" THEN d
    ELSE IF pos > d.len THEN Fail(d, "slice bounds out of range")
    ELSE IF d.cap - d.len >= Len(s) THEN Write(d, d.len, s)
    ELSE d

\* d[:n]
Truncate(d, n) == IF n > d.cap THEN Fail(d, "slice bounds out of range") ELSE [d EXCEPT !.len = n]

\* the first n bytes of d as a page image: what copy() moves into the file
Image(d, n) == [i \in {j \in DOMAIN d.b : j < n} |-> d.b[i]]

\* the order of a and b given the set D of the indices where both have a byte
\* and the bytes differ
CompareFrom(a, b, D) ==
    IF D = {} THEN (IF Len(a) < Len(b) THEN -1 ELSE IF Len(a) > Len(b) THEN 1 ELSE 0)
    ELSE IF \E i \in D : a[i] < b[i] /\ \A j \in D : i <= j THEN -1
    ELSE 1

\* bytes.Compare
bytesCompare(a, b) ==
    CompareFrom(a, b, {i \in DOMAIN a \cap DOMAIN b : a[i] # b[i]})

\* what a panicking byte-slice getter yields
BadSlice == <<-1>>

\* ------------------------------------------------------------------------
\* BNode: the page codec (an integer getter yields -1 where the code panics)
\* ------------------------------------------------------------------------
btype(node) == Uint16(node, 0)

nkeys(node) == Uint16(node, 2)

setHeader(node, t, n) == PutAt(PutAt(node, 0, Le16(t)), 2, Le16(n))

getPtrAt(node, pos) ==
    IF pos > node.len \/ node.len - pos < 8 THEN -1 ELSE Uint64(node, pos)

getPtr(node, idx) ==
    IF idx >= nkeys(node) THEN -1 ELSE getPtrAt(node, U16(HEADER + 8 * idx))

setPtr(node, idx, val) ==
    IF node.err # "" THEN node
    ELSE IF idx >= nkeys(node) THEN Fail(node, "setPtr: index out of range")
    ELSE AppendDropped(node, U16(HEADER + 8 * idx), Le64(val))

offsetPos(node, idx) ==
    IF idx > nkeys(node) THEN -1
    ELSE U16(HEADER + 8 * nkeys(node) + 2 * U16(idx + 65535))

getOffSetAt(node, pos) ==
    IF pos = -1 \/ pos > node.len \/ node.len - pos < 2 THEN -1 ELSE Uint16(node, pos)

getOffSet(node, idx) == IF idx = 0 THEN 0 ELSE getOffSetAt(node, offsetPos(node, idx))

setOffSetAt(node, pos, offset) ==
    IF pos = -1 THEN Fail(node, "offSetPos: idx out of range")
    ELSE AppendDropped(node, pos, Le16(offset))

setOffSet(node, idx, offset) ==
    IF node.err # "" THEN node ELSE setOffSetAt(node, offsetPos(node, idx), offset)

kvPosAt(node, n, off) == IF off = -1 THEN -1 ELSE U16(HEADER + 8 * n + 2 * n + off)

kvPos(node, idx) ==
    IF idx > nkeys(node) THEN -1 ELSE kvPosAt(node, nkeys(node), getOffSet(node, idx))

\* node.data[pos+4:][:klen]
getKeyAt(node, pos) ==
    IF pos = -1 \/ pos > node.len \/ node.len - pos < 2 THEN BadSlice
    ELSE IF U16(pos + 4) > node.len THEN BadSlice
    ELSE IF Uint16(node, pos) > node.cap - U16(pos + 4) THEN BadSlice
    ELSE Slice(node, U16(pos + 4), Uint16(node, pos))

getKey(node, idx) == IF idx > nkeys(node) THEN BadSlice ELSE getKeyAt(node, kvPos(node, idx))

\* node.data[pos+4+klen:][:vlen]
getValFrom(node, at, vlen) ==
    IF at > node.len THEN BadSlice
    ELSE IF vlen > node.cap - at THEN BadSlice
    ELSE Slice(node, at, vlen)

getValAt(node, pos) ==
    IF pos = -1 \/ pos > node.len \/ node.len - pos < 2 THEN BadSlice
    ELSE IF U16(pos + 2) > node.len \/ node.len - U16(pos + 2) < 2 THEN BadSlice
    ELSE getValFrom(node, U16(pos + 4 + Uint16(node, pos)), Uint16(node, U16(pos + 2)))

getVal(node, idx) == IF idx > nkeys(node) THEN BadSlice ELSE getValAt(node, kvPos(node, idx))

nbytes(node) == kvPos(node, nkeys(node))

\* ------------------------------------------------------------------------
\* Node search and the structural mutators
\* ------------------------------------------------------------------------
\* The loop of nodeLookupLE runs i = 1, 2, ... and leaves at the first i whose
\* key is >= the search key, or whose read panics; found is the last i before
\* that whose key was <= the search key.
LookupStopsAt(key, k) == k = BadSlice \/ bytesCompare(k, key) >= 0

LookupResult(node, key, n, stop, k) ==
    IF stop = 0 THEN (IF n >= 2 THEN n - 1 ELSE 0)
    ELSE IF k = BadSlice THEN -1
    ELSE IF bytesCompare(k, key) = 0 THEN stop
    ELSE stop - 1

\* the first i in [1, n) at which the loop leaves, 0 when it runs to the end
LookupStop(node, key, n) ==
    IF \E i \in 1..(n - 1) : LookupStopsAt(key, getKey(node, i))
    THEN CHOOSE i \in 1..(n - 1) :
             /\ LookupStopsAt(key, getKey(node, i))
             /\ \A j \in 1..(i - 1) : ~LookupStopsAt(key, getKey(node, j))
    ELSE 0

LookupFrom(node, key, n, stop) ==
    LookupResult(node, key, n, stop, IF stop = 0 THEN <<>> ELSE getKey(node, stop))

\* a lookup that answers the index its loop left at
nodeLookupLEStop(node, key) == LookupStop(node, key, nkeys(node))

\* the index found, or -1 where getKey panics on the way
nodeLookupLE(node, key) == LookupFrom(node, key, nkeys(node), LookupStop(node, key, nkeys(node)))

\* for i in [0, n): new.setPtr(dstNew+i, old.getPtr(srcOld+i))
RECURSIVE AppendPtrs(_, _, _, _, _, _)
AppendPtrs(new, old, dstNew, srcOld, n, i) ==
    IF i >= n \/ new.err # "" THEN new
    ELSE IF getPtr(old, U16(srcOld + i)) = -1 THEN Fail(new, "getPtr: index out of range")
    ELSE AppendPtrs(setPtr(new, U16(dstNew + i), getPtr(old, U16(srcOld + i))),
                    old, dstNew, srcOld, n, i + 1)

\* for i in [1, n]: new.setOffSet(dstNew+i, dstBegin + old.getOffSet(srcOld+i) - srcBegin)
RECURSIVE AppendOffsets(_, _, _, _, _, _, _, _)
AppendOffsets(new, old, dstNew, srcOld, n, dstBegin, srcBegin, i) ==
    IF i > n \/ new.err # "" THEN new
    ELSE IF getOffSet(old, U16(srcOld + i)) = -1 THEN Fail(new, "offSetPos: idx out of range")
    ELSE AppendOffsets(
             setOffSet(new, U16(dstNew + i),
                       U16(dstBegin + getOffSet(old, U16(srcOld + i)) + 65536 - srcBegin)),
             old, dstNew, srcOld, n, dstBegin, srcBegin, i + 1)

\* The two loops of nodeAppendRange.  Every store of the loops goes through
\* AppendDropped; when new has no spare capacity none of them changes new and
\* the loops can only panic, which they do iff their last iteration does
\* (the positions grow with i), so that case is decided without unrolling:
\* `first` is the iteration the pointer loop is entered at.
CopyOffsets(p, old, dstNew, srcOld, n, first, dstBegin, srcBegin) ==
    IF p.err # "" THEN p
    ELSE IF dstBegin = -1 \/ srcBegin = -1 THEN Fail(p, "offSetPos: idx out of range")
    ELSE AppendOffsets(p, old, dstNew, srcOld, n, dstBegin, srcBegin, first + 1)

CopyFrom(p, old, dstNew, srcOld, n, first) ==
    CopyOffsets(p, old, dstNew, srcOld, n, first, getOffSet(p, dstNew), getOffSet(old, srcOld))

CopyLoops(new, old, dstNew, srcOld, n, first) ==
    CopyFrom(AppendPtrs(new, old, dstNew, srcOld, n, first), old, dstNew, srcOld, n, first)

CopyPtrsAndOffsets(new, old, dstNew, srcOld, n) ==
    CopyLoops(new, old, dstNew, srcOld, n, IF new.cap - new.len >= 2 THEN 0 ELSE n - 1)

\* copy(new.data[new.kvPos(dstNew):], old.data[begin:end])
CopyKVs(o, old, begin, end, at) ==
    IF o.err # "" THEN o
    ELSE IF begin = -1 \/ end = -1 \/ at = -1 THEN Fail(o, "kvPos: idx out of range")
    ELSE IF begin > end \/ end > old.cap THEN Fail(o, "slice bounds out of range")
    ELSE CopyAt(o, at, Slice(old, begin, end - begin))

RangeKVs(o, old, dstNew, srcOld, n) ==
    CopyKVs(o, old, kvPos(old, srcOld), kvPos(old, U16(srcOld + n)), kvPos(o, dstNew))

nodeAppendRange(new, old, dstNew, srcOld, n) ==
    IF new.err # "" THEN new
    ELSE IF U16(srcOld + n) > nkeys(old) THEN Fail(new, "problem with nodeAppendRange")
    ELSE IF U16(dstNew + n) > nkeys(new) THEN Fail(new, "problem with nodeAppendRange")
    ELSE IF n = 0 THEN new
    ELSE RangeKVs(CopyPtrsAndOffsets(new, old, dstNew, srcOld, n), old, dstNew, srcOld, n)

\* new.setOffSet(idx+1, new.getOffSet(idx)+4+uint16(len(key)+len(val)))
NextOffset(c, idx, off, key, val) ==
    IF c.err # "" THEN c
    ELSE IF off = -1 THEN Fail(c, "offSetPos: idx out of range")
    ELSE setOffSet(c, U16(idx + 1), U16(off + 4 + U16(Len(key) + Len(val))))

\* the lengths, the key and the value stored at pos
PutKV(p, pos, key, val) ==
    IF pos = -1 THEN Fail(p, "kvPos: idx out of range")
    ELSE CopyAt(CopyAt(PutAt(PutAt(p, pos, Le16(Len(key))), U16(pos + 2), Le16(Len(val))),
                       U16(pos + 4), key),
                U16(pos + 4 + Len(key)), val)

KVAt(p, idx, key, val) ==
    IF p.err # "" THEN p
    ELSE NextOffset(PutKV(p, kvPos(p, idx), key, val), idx, getOffSet(p, idx), key, val)

nodeAppendKV(new, idx, ptr, key, val) ==
    IF new.err # "" THEN new ELSE KVAt(setPtr(new, idx, ptr), idx, key, val)

leafInsert(new, old, idx, key, val) ==
    LET h == setHeader(new, BNODE_LEAF, U16(nkeys(old) + 1))
        a == nodeAppendRange(h, old, 0, 0, idx)
        k == nodeAppendKV(a, idx, 0, key, val)
    IN nodeAppendRange(k, old, U16(idx + 1), idx, U16(nkeys(old) + 65536 - idx))

leafUpdate(new, old, idx, key, val) ==
    LET h == setHeader(new, BNODE_LEAF, nkeys(old))
        a == nodeAppendRange(h, old, 0, 0, idx)
        k == nodeAppendKV(a, idx, 0, key, val)
    IN nodeAppendRange(k, old, U16(idx + 1), U16(idx + 1), U16(nkeys(old) + 65536 - idx - 1))

leafDelete(new, old, idx) ==
    LET h == setHeader(new, BNODE_LEAF, U16(nkeys(old) + 65535))
        a == nodeAppendRange(h, old, 0, 0, idx)
    IN nodeAppendRange(a, old, idx, U16(idx + 1), U16(nkeys(old) + 65536 - idx + 1))

\* the loop of splitSingleNode: the first i at which the rest fits a page, or 0
RECURSIVE SplitIdx(_, _, _, _)
SplitIdx(old, totalBytes, i, curBytes) ==
    IF i >= nkeys(old) THEN 0
    ELSE LET oldPos == kvPos(old, i)
         IN IF oldPos = -1 \/ oldPos > old.len \/ old.len - oldPos < 2
               \/ U16(oldPos + 2) > old.len \/ old.len - U16(oldPos + 2) < 2
            THEN -1
            ELSE LET cur == curBytes + 8 + 2 + 2 + 2 + Uint16(old, oldPos)
                                + Uint16(old, U16(oldPos + 2))
                 IN IF U16(totalBytes + 65536 - U16(cur)) <= BTREE_PAGE_SIZE - 4
                    THEN i
                    ELSE SplitIdx(old, totalBytes, i + 1, cur)

\* splitSingleNode(left, right, old): the pair <<left, right>>; a panic is
\* reported in the err of both
SplitPair(l, r) ==
    IF l.err # "" THEN <<l, Fail(r, l.err)>>
    ELSE IF r.err # "" THEN <<Fail(l, r.err), r>>
    ELSE <<l, r>>

SplitAt(left, right, old, idx) ==
    IF idx = -1
    THEN <<Fail(left, "index out of range"), Fail(right, "index out of range")>>
    ELSE SplitPair(nodeAppendRange(setHeader(left, btype(old), idx), old, 0, 0, idx),
                   nodeAppendRange(setHeader(right, btype(old), U16(nkeys(old) - idx)),
                                   old, 0, idx, U16(nkeys(old) - idx)))

SplitFrom(left, right, old, total) ==
    SplitAt(left, right, old, IF total = -1 THEN -1 ELSE SplitIdx(old, total, 0, 0))

splitSingleNode(left, right, old) == SplitFrom(left, right, old, nbytes(old))

\* splitNode(old): the sequence of 1 to 3 nodes; a panic is reported in the err
\* of the first node
SplitThree(right, lm, size) ==
    IF lm[1].err # "" THEN <<lm[1]>>
    ELSE IF size = -1 THEN <<Fail(lm[1], "index out of range")>>
    ELSE IF size > BTREE_PAGE_SIZE
         THEN <<Fail(lm[1], "leftleft page size is still larger than page size")>>
    ELSE <<lm[1], lm[2], right>>

SplitLeft(right, lm) == SplitThree(right, lm, nbytes(lm[1]))

SplitTwo(lr, size) ==
    IF lr[1].err # "" THEN <<lr[1]>>
    ELSE IF size = -1 THEN <<Fail(lr[1], "index out of range")>>
    ELSE IF size <= BTREE_PAGE_SIZE THEN <<Truncate(lr[1], BTREE_PAGE_SIZE), lr[2]>>
    ELSE SplitLeft(lr[2],
                   splitSingleNode(make(BTREE_PAGE_SIZE), make(BTREE_PAGE_SIZE), lr[1]))

SplitOnce(lr) == SplitTwo(lr, nbytes(lr[1]))

SplitOld(old, size) ==
    IF old.err # "" THEN <<old>>
    ELSE IF size = -1 THEN <<Fail(old, "index out of range")>>
    ELSE IF size <= BTREE_PAGE_SIZE THEN <<Truncate(old, BTREE_PAGE_SIZE)>>
    ELSE SplitOnce(splitSingleNode(make(2 * BTREE_PAGE_SIZE), make(BTREE_PAGE_SIZE), old))

splitNode(old) == SplitOld(old, nbytes(old))

nodeMerge(new, left, right) ==
    LET h == setHeader(new, btype(left), U16(nkeys(left) + nkeys(right)))
        a == nodeAppendRange(h, left, 0, 0, nkeys(left))
    IN nodeAppendRange(a, right, nkeys(left), 0, nkeys(right))

\* ------------------------------------------------------------------------
\* The machine a handler runs on.  A handler is a function from machine to
\* machine; err is the panic that aborted it, ret the value last returned by a
\* callback or by the handler, log the page callbacks made so far.
\*   kind = "mem": the test Container (pages, held)
\*   kind = "kv" : the KeyValue store (db fields and the file it has mapped)
\* ------------------------------------------------------------------------
Abort(m, msg) == IF m.err # "" THEN m ELSE [m EXCEPT !.err = msg]

Logged(m, cb, ptr, node) ==
    IF m.err # "" THEN m
    ELSE [m EXCEPT !.log = Append(@, [cb |-> cb, ptr |-> ptr,
                                 nkeys |-> IF node.nil THEN 0 ELSE nkeys(node),
                                 nbytes |-> IF node.nil THEN 0 ELSE nbytes(node)])]

\* --- free-list node accessors (key_value_freelist.go)
flnSize(node) == IF node.nil THEN 0 ELSE Uint16(node, 16)

flnNext(node) == IF node.nil THEN 0 ELSE Uint64(node, 96)

flnPtrOffset(idx) == FREE_LIST_HEADER * 8 + idx * 8

\* -1 where the read runs past the page
flnPtr(node, idx) ==
    IF node.nil THEN 0
    ELSE IF flnPtrOffset(idx) > node.len \/ node.len - flnPtrOffset(idx) < 8 THEN -1
    ELSE Uint64(node, flnPtrOffset(idx))

flnSetPtr(node, idx, ptr) == PutAt(node, flnPtrOffset(idx), Le64(ptr))

flnSetHeader(node, size, next) == PutAt(PutAt(node, 16, Le16(size)), 96, Le64(next))

flnSetTotal(node, total) == PutAt(node, 32, Le64(total))

\* --- the mapping: chunks is the sequence of mappings, each [off, len] in bytes
\* the file offset of page ptr as the walk over the chunks finds it, -1 when
\* no chunk holds it
RECURSIVE ChunkWalk(_, _, _, _)
ChunkWalk(m, ptr, j, start) ==
    IF j > Len(m.chunks) THEN -1
    ELSE IF ptr < start + m.chunks[j].len \div BTREE_PAGE_SIZE
         THEN m.chunks[j].off + BTREE_PAGE_SIZE * (ptr - start)
    ELSE ChunkWalk(m, ptr, j + 1, start + m.chunks[j].len \div BTREE_PAGE_SIZE)

MappedAt(m, ptr) == ChunkWalk(m, ptr, 1, 0)

\* the bytes of the mapping at file offset `at`: a view of the file page under
\* it; touching a mapped page past the end of the file kills the process
MappedPage(m, at) ==
    IF at = -1 THEN Fail(NilData, "pageGetMapped: bad ptr")
    ELSE IF at + BTREE_PAGE_SIZE > m.file.size
         THEN Fail(NilData, "SIGBUS: mapped page beyond the end of the file")
    ELSE [nil |-> FALSE, len |-> BTREE_PAGE_SIZE, cap |-> BTREE_PAGE_SIZE,
          b |-> m.file.pages[at \div BTREE_PAGE_SIZE], err |-> ""]

pageGetMapped(m, ptr) == MappedPage(m, MappedAt(m, ptr))

\* reading a nil map finds nothing
pageGet(m, ptr) ==
    IF ptr \in DOMAIN m.updates
    THEN IF m.updates[ptr].nil THEN Fail(NilData, "pageGet: page is nil") ELSE m.updates[ptr]
    ELSE pageGetMapped(m, ptr)

\* db.page.updates[ptr] = data; a store into the nil map panics
Stage(m, ptr, data) ==
    IF m.err # "" THEN m
    ELSE IF m.updNil THEN Abort(m, "assignment to entry in nil map")
    ELSE [m EXCEPT !.updates = [q \in DOMAIN @ \cup {ptr} |-> IF q = ptr THEN data ELSE @[q]]]

\* --- FreeList.Total, FreeList.Get (-1 where they panic)
TotalOf(page) == IF page.err # "" THEN -1 ELSE Uint64(page, 32)

FreeTotal(m) == IF m.head = 0 THEN 0 ELSE TotalOf(pageGet(m, m.head))

RECURSIVE FreeGetWalk(_, _, _)
FreeGetWalk(m, node, topn) ==
    IF node.err # "" THEN -1
    ELSE IF flnSize(node) <= topn
         THEN IF flnNext(node) = 0 THEN -1
              ELSE FreeGetWalk(m, pageGet(m, flnNext(node)), topn - flnSize(node))
    ELSE flnPtr(node, flnSize(node) - topn - 1)

FreeGetIn(m, topn, total) ==
    IF total = -1 \/ topn < 0 \/ topn >= total THEN -1
    ELSE FreeGetWalk(m, pageGet(m, m.head), topn)

FreeGet(m, topn) == FreeGetIn(m, topn, FreeTotal(m))

\* --- the page callbacks of the KeyValue store
\* an append that numbers its pages from nappend alone
pageAppendPtrUnbased(m) == m.nappend

\* ptr = db.page.flushed + uint64(db.page.nappend)
pageAppendPtr(m) == m.flushed + m.nappend

\* db.page.updates[ptr] = node.data; return ptr
Staged(m, cb, ptr, node) ==
    IF ptr = -1 THEN Abort(m, "Get: topn index is out of scope")
    ELSE [Logged(Stage(m, ptr, node), cb, ptr, node) EXCEPT !.ret = ptr]

NewFrom(m, node, total) ==
    IF total = -1 THEN Abort(m, "pageGet: bad ptr")
    ELSE IF m.nfree < total
         THEN Staged([m EXCEPT !.nfree = @ + 1], "new", FreeGet(m, m.nfree), node)
    ELSE Staged([m EXCEPT !.nappend = @ + 1], "new", pageAppendPtr(m), node)

\* a pageNew that never looks at the free list
pageNewAppending(m, node) ==
    IF m.err # "" THEN m
    ELSE Staged([m EXCEPT !.nappend = @ + 1], "new", pageAppendPtr(m), node)

pageNew(m, node) ==
    IF m.err # "" THEN m
    ELSE IF node.len > BTREE_PAGE_SIZE THEN Abort(m, "pageNew: node is larger than page size")
    ELSE NewFrom(m, node, FreeTotal(m))

pageAppend(m, node) ==
    IF m.err # "" THEN m
    ELSE IF node.len > BTREE_PAGE_SIZE
         THEN Abort(m, "pageAppend: node is larger than BTREE_PAGE_SIZE")
    ELSE Staged([m EXCEPT !.nappend = @ + 1], "append", pageAppendPtr(m), node)

pageUse(m, ptr, node) ==
    IF m.err # "" THEN m ELSE Logged(Stage(m, ptr, node), "use", ptr, node)

pageDel(m, ptr) ==
    IF m.err # "" THEN m ELSE Logged(Stage(m, ptr, NilData), "del", ptr, NilData)

\* --- the page callbacks of the test Container
\* &node.data[0]: an address no live page and no buffer the running handler
\* still holds has; addresses are opaque, the least unused number stands for it
FreshAddress(m) ==
    CHOOSE a \in 1..(Cardinality(DOMAIN m.pages \cup m.held) + 1) :
        /\ a \notin DOMAIN m.pages \cup m.held
        /\ \A c \in 1..(a - 1) : c \in DOMAIN m.pages \cup m.held

containerGet(m, ptr) ==
    IF ptr \in DOMAIN m.pages THEN m.pages[ptr] ELSE Fail(NilData, "could not find page")

\* the assertion of new on the size, then pages[key] = node
Allocated(called, node, key, size) ==
    IF size = -1 THEN Abort(called, "index out of range")
    ELSE IF size > BTREE_PAGE_SIZE THEN Abort(called, "node does not fit within page")
    ELSE [called EXCEPT
             !.pages = [q \in DOMAIN @ \cup {key} |-> IF q = key THEN node ELSE @[q]],
             !.ret = key]

AllocateAt(m, node, key) == Allocated(Logged(m, "new", key, node), node, key, nbytes(node))

containerNew(m, node) == IF m.err # "" THEN m ELSE AllocateAt(m, node, FreshAddress(m))

containerDel(m, ptr) ==
    IF m.err # "" THEN m
    ELSE IF ptr \notin DOMAIN m.pages THEN Abort(m, "page does not exist")
    ELSE [Logged(m, "del", ptr, NilData) EXCEPT
             !.pages = [q \in DOMAIN @ \ {ptr} |-> @[q]],
             !.held = @ \cup {ptr}]

\* --- BTree.get / BTree.new / BTree.del: whichever callbacks the tree was given
treeGet(m, ptr) == IF m.kind = "mem" THEN containerGet(m, ptr) ELSE pageGet(m, ptr)

treeNew(m, node) == IF m.kind = "mem" THEN containerNew(m, node) ELSE pageNew(m, node)

treeDel(m, ptr) == IF m.kind = "mem" THEN containerDel(m, ptr) ELSE pageDel(m, ptr)

\* ------------------------------------------------------------------------
\* The B+Tree engine (btree.go).  An operator that returns a node and changes
\* the machine yields [m, node].
\* ------------------------------------------------------------------------
Noded(m, node) == [m |-> Abort(m, node.err), node |-> node]

\* for i, node := range kids: nodeAppendKV(new, idx+i, tree.new(node), node.getKey(0), nil)
RECURSIVE KidLoop(_, _, _, _, _)

KidLinked(a, k, idx, kids, i) == KidLoop(Abort(a, k.err), k, idx, kids, i + 1)

KidStep(a, new, idx, kids, i, key) ==
    IF a.err # "" THEN [m |-> a, node |-> new]
    ELSE IF key = BadSlice THEN [m |-> Abort(a, "slice bounds out of range"), node |-> new]
    ELSE KidLinked(a, nodeAppendKV(new, U16(idx + i - 1), a.ret, key, <<>>), idx, kids, i)

KidLoop(m, new, idx, kids, i) ==
    IF i > Len(kids) \/ m.err # "" THEN [m |-> m, node |-> new]
    ELSE KidStep(treeNew(m, kids[i]), new, idx, kids, i, getKey(kids[i], 0))

\* nodeAppendRange(new, old, idx+inc, idx+1, old.nkeys()-idx+1)
KidsTail(r, old, idx, inc) ==
    IF r.m.err # "" THEN r
    ELSE Noded(r.m, nodeAppendRange(r.node, old, U16(idx + inc), U16(idx + 1),
                                    U16(nkeys(old) + 65536 - idx + 1)))

KidsFrom(m, a, old, idx, kids) ==
    KidsTail(KidLoop(Abort(m, a.err), a, idx, kids, 1), old, idx, Len(kids))

nodeReplaceKidN(m, new, old, idx, kids) ==
    KidsFrom(m,
             nodeAppendRange(setHeader(new, BNODE_NODE, U16(nkeys(old) + Len(kids) + 65535)),
                             old, 0, 0, idx),
             old, idx, kids)

\* replace the two links at idx, idx+1 by one: its body is not among the
\* sources, so it follows the description of the merge
nodeReplace2Kid(new, old, idx, ptr, key) ==
    nodeAppendRange(
        nodeAppendKV(nodeAppendRange(setHeader(new, BNODE_NODE, U16(nkeys(old) + 65535)),
                                     old, 0, 0, idx),
                     idx, ptr, key, <<>>),
        old, U16(idx + 1), U16(idx + 2), U16(nkeys(old) + 65536 - idx - 2))

RECURSIVE treeInsert(_, _, _, _)

\* nodeReplaceKidN(tree, new, node, idx, splited[:nsplit]...)
KidSplit(r, new, node, idx, kids) ==
    IF r.m.err # "" THEN [m |-> r.m, node |-> new]
    ELSE IF kids[1].err # "" THEN [m |-> Abort(r.m, kids[1].err), node |-> new]
    ELSE nodeReplaceKidN(r.m, new, node, idx, kids)

KidInserted(r, new, node, idx) == KidSplit(r, new, node, idx, splitNode(r.node))

IntoKid(m, new, node, idx, key, val, kptr, knode) ==
    IF kptr = -1 THEN [m |-> Abort(m, "getPtr: index out of range"), node |-> new]
    ELSE IF knode.err # "" THEN [m |-> Abort(m, knode.err), node |-> new]
    ELSE KidInserted(treeInsert(treeDel(m, kptr), knode, key, val), new, node, idx)

AtKid(m, new, node, idx, key, val, kptr) ==
    IntoKid(m, new, node, idx, key, val, kptr, treeGet(m, kptr))

nodeInsert(m, new, node, idx, key, val) ==
    AtKid(m, new, node, idx, key, val, getPtr(node, idx))

\* case BNODE_LEAF of treeInsert; at is node.getKey(idx)
IntoLeaf(m, new, node, idx, key, val, at) ==
    IF at = BadSlice THEN [m |-> Abort(m, "slice bounds out of range"), node |-> new]
    ELSE IF key = at THEN Noded(m, leafUpdate(new, node, idx, key, val))
    ELSE Noded(m, leafInsert(new, node, U16(idx + 1), key, val))

InsertAt(m, new, node, idx, key, val) ==
    IF m.err # "" THEN [m |-> m, node |-> new]
    ELSE IF idx = -1 THEN [m |-> Abort(m, "slice bounds out of range"), node |-> new]
    ELSE IF btype(node) = BNODE_LEAF
         THEN IntoLeaf(m, new, node, idx, key, val, getKey(node, idx))
    ELSE IF btype(node) = BNODE_NODE THEN nodeInsert(m, new, node, idx, key, val)
    ELSE [m |-> Abort(m, "bad node!"), node |-> new]

treeInsert(m, node, key, val) ==
    InsertAt(m, make(2 * BTREE_PAGE_SIZE), node, nodeLookupLE(node, key), key, val)

\* a first Insert that sets no header and appends nothing
FirstRootBare(key, val) == make(BTREE_PAGE_SIZE)

\* the root of two entries built by the first Insert
FirstRoot(key, val) ==
    nodeAppendKV(nodeAppendKV(setHeader(make(BTREE_PAGE_SIZE), BNODE_LEAF, 2),
                              0, 0, <<>>, <<>>),
                 1, 0, key, val)

\* for i, knode := range splitted: ptr, key := tree.new(knode), knode.getKey(0);
\* nodeAppendKV(root, i, ptr, key, nil)
NewLevel(m, kids) ==
    KidLoop(m, setHeader(make(BTREE_PAGE_SIZE), BNODE_NODE, Len(kids)), 0, kids, 1)

\* size checks that let the empty key through
InsertSizeCheckNoEmpty(key, val) ==
    IF Len(key) > BTREE_MAX_KEY_SIZE THEN "Insert: key is larger than max key size"
    ELSE IF Len(val) > BTREE_MAX_VAL_SIZE THEN "Insert: val is larger than max val size"
    ELSE ""

InsertSizeCheck(key, val) ==
    IF Len(key) = 0 THEN "Insert: key is of size 0"
    ELSE IF Len(key) > BTREE_MAX_KEY_SIZE THEN "Insert: key is larger than max key size"
    ELSE IF Len(val) > BTREE_MAX_VAL_SIZE THEN "Insert: val is larger than max val size"
    ELSE ""

\* tree.root = tree.new(...)
Rooted(a) == IF a.err # "" THEN a ELSE [a EXCEPT !.root = a.ret]

NewRoot(l) == Rooted(treeNew(l.m, l.node))

RootSplit(r, kids) ==
    IF r.m.err # "" THEN r.m
    ELSE IF kids[1].err # "" THEN Abort(r.m, kids[1].err)
    ELSE IF Len(kids) > 1 THEN NewRoot(NewLevel(r.m, kids))
    ELSE Rooted(treeNew(r.m, kids[1]))

RootInserted(r) == RootSplit(r, splitNode(r.node))

\* an Insert that leaves the old root allocated
IntoRootKept(m, node, key, val) ==
    IF node.err # "" THEN Abort(m, node.err)
    ELSE RootInserted(treeInsert(m, node, key, val))

IntoRoot(m, node, key, val) ==
    IF node.err # "" THEN Abort(m, node.err)
    ELSE RootInserted(treeInsert(treeDel(m, m.root), node, key, val))

FirstInsert(m, root) == Rooted(treeNew(Abort(m, root.err), root))

InsertChecked(m, key, val, bad) ==
    IF bad # "" THEN Abort(m, bad)
    ELSE IF m.root = 0 THEN FirstInsert(m, FirstRoot(key, val))
    ELSE IntoRoot(m, treeGet(m, m.root), key, val)

\* BTree.Insert
Insert(m, key, val) ==
    IF m.err # "" THEN m ELSE InsertChecked(m, key, val, InsertSizeCheck(key, val))

\* shouldMerge: [dir, sibling, err]
NoMerge == [dir |-> 0, sibling |-> NilData, err |-> ""]

BadMerge(msg) == [dir |-> 0, sibling |-> NilData, err |-> msg]

\* merged := sibling.nbytes() + updated.nbytes() - HEADER; otherwise is what
\* the code goes on to when the merged node would not fit
SiblingSized(sibling, size, updatedSize, dir, otherwise) ==
    IF size = -1 THEN BadMerge("index out of range")
    ELSE IF U16(size + updatedSize + 65536 - HEADER) <= BTREE_PAGE_SIZE
         THEN [dir |-> dir, sibling |-> sibling, err |-> ""]
    ELSE otherwise

SiblingGot(sibling, updatedSize, dir, otherwise) ==
    IF sibling.err # "" THEN BadMerge(sibling.err)
    ELSE SiblingSized(sibling, nbytes(sibling), updatedSize, dir, otherwise)

SiblingAt(m, ptr, updatedSize, dir, otherwise) ==
    IF ptr = -1 THEN BadMerge("getPtr: index out of range")
    ELSE SiblingGot(treeGet(m, ptr), updatedSize, dir, otherwise)

TryRight(m, node, idx, updatedSize) ==
    IF U16(idx + 1) < nkeys(node)
    THEN SiblingAt(m, getPtr(node, U16(idx + 1)), updatedSize, 1, NoMerge)
    ELSE NoMerge

TryLeft(m, node, idx, updatedSize, right) ==
    IF idx > 0
    THEN SiblingAt(m, getPtr(node, U16(idx + 65535)), updatedSize, -1, right)
    ELSE right

MergeFor(m, node, idx, updatedSize) ==
    IF updatedSize = -1 THEN BadMerge("index out of range")
    ELSE IF updatedSize > BTREE_PAGE_SIZE \div 4 THEN NoMerge
    ELSE TryLeft(m, node, idx, updatedSize, TryRight(m, node, idx, updatedSize))

\* a shouldMerge without its test of the size of updated
shouldMergeAnySize(m, node, idx, updated) ==
    TryLeft(m, node, idx, nbytes(updated), TryRight(m, node, idx, nbytes(updated)))

shouldMerge(m, node, idx, updated) == MergeFor(m, node, idx, nbytes(updated))

RECURSIVE treeDelete(_, _, _)

\* nodeReplace2Kid(new, node, at, tree.new(merged), merged.getKey(0))
Replaced(a, node, at, key) ==
    IF a.err # "" THEN [m |-> a, node |-> NilData]
    ELSE IF key = BadSlice
         THEN [m |-> Abort(a, "slice bounds out of range"), node |-> NilData]
    ELSE Noded(a, nodeReplace2Kid(make(BTREE_PAGE_SIZE), node, at, a.ret, key))

Merged(m, node, at, gone, merged) ==
    IF gone = -1 THEN [m |-> Abort(m, "getPtr: index out of range"), node |-> NilData]
    ELSE Replaced(treeNew(treeDel(Abort(m, merged.err), gone), merged),
                  node, at, getKey(merged, 0))

\* the merge cases of nodeDelete: sibling and updated become one page that
\* takes the place of the links at `at` and `at + 1`
MergeInto(m, node, at, gone, first, second) ==
    Merged(m, node, at, gone, nodeMerge(make(BTREE_PAGE_SIZE), first, second))

\* switch on mergeDir
Merging(d, node, idx, updated, s) ==
    IF d.err # "" THEN [m |-> d, node |-> NilData]
    ELSE IF s.err # "" THEN [m |-> Abort(d, s.err), node |-> NilData]
    ELSE IF s.dir < 0
         THEN MergeInto(d, node, U16(idx + 65535), getPtr(node, U16(idx + 65535)),
                        s.sibling, updated)
    ELSE IF s.dir > 0
         THEN MergeInto(d, node, idx, getPtr(node, U16(idx + 1)), updated, s.sibling)
    ELSE IF nkeys(updated) <= 0
         THEN [m |-> Abort(d, "Number of keys in updated node is 0 or lower"),
               node |-> NilData]
    ELSE nodeReplaceKidN(d, make(BTREE_PAGE_SIZE), node, idx, <<updated>>)

KidDeleted(d, node, idx, updated) ==
    Merging(d, node, idx, updated, shouldMerge(d, node, idx, updated))

KidUpdated(u, node, idx, kptr) ==
    IF u.m.err # "" \/ u.node.len = 0 THEN [m |-> u.m, node |-> NilData]
    ELSE KidDeleted(treeDel(u.m, kptr), node, idx, u.node)

FromKid(m, node, idx, key, kptr, kid) ==
    IF kptr = -1 THEN [m |-> Abort(m, "getPtr: index out of range"), node |-> NilData]
    ELSE IF kid.err # "" THEN [m |-> Abort(m, kid.err), node |-> NilData]
    ELSE KidUpdated(treeDelete(m, kid, key), node, idx, kptr)

FromKidAt(m, node, idx, key, kptr) == FromKid(m, node, idx, key, kptr, treeGet(m, kptr))

nodeDelete(m, node, idx, key) == FromKidAt(m, node, idx, key, getPtr(node, idx))

\* case BNODE_LEAF of treeDelete; at is node.getKey(idx)
FromLeaf(m, node, idx, key, at) ==
    IF at = BadSlice THEN [m |-> Abort(m, "slice bounds out of range"), node |-> NilData]
    ELSE IF key # at THEN [m |-> m, node |-> NilData]
    ELSE Noded(m, leafDelete(make(BTREE_PAGE_SIZE), node, idx))

DeleteAt(m, node, idx, key) ==
    IF m.err # "" THEN [m |-> m, node |-> NilData]
    ELSE IF idx = -1 THEN [m |-> Abort(m, "slice bounds out of range"), node |-> NilData]
    ELSE IF btype(node) = BNODE_LEAF THEN FromLeaf(m, node, idx, key, getKey(node, idx))
    ELSE IF btype(node) = BNODE_NODE THEN nodeDelete(m, node, idx, key)
    ELSE [m |-> Abort(m, "bad node!"), node |-> NilData]

\* a delete that takes the key of the slot it reached for the key it was given
treeDeleteReached(m, node, key) ==
    DeleteAt(m, node, nodeLookupLE(node, key), getKey(node, nodeLookupLE(node, key)))

treeDelete(m, node, key) == DeleteAt(m, node, nodeLookupLE(node, key), key)

DeleteSizeCheck(key) ==
    IF Len(key) = 0 THEN "Delete: key is of size 0"
    ELSE IF Len(key) > BTREE_MAX_KEY_SIZE THEN "Delete: key is larger than max key size"
    ELSE ""

\* tree.root = updated.getPtr(0)
LevelRemoved(d, ptr) ==
    IF ptr = -1 THEN Abort(d, "getPtr: index out of range")
    ELSE [d EXCEPT !.root = ptr, !.ret = 1]

\* tree.root = tree.new(updated); return true
Replanted(a) == IF a.err # "" THEN a ELSE [a EXCEPT !.root = a.ret, !.ret = 1]

Uprooted(d, updated) ==
    IF d.err # "" THEN d
    ELSE IF btype(updated) = BNODE_NODE /\ nkeys(updated) = 1
         THEN LevelRemoved(d, getPtr(updated, 0))
    ELSE Replanted(treeNew(d, updated))

RootUpdated(u, root) ==
    IF u.m.err # "" THEN u.m
    ELSE IF u.node.len = 0 THEN [u.m EXCEPT !.ret = 0]
    ELSE Uprooted(treeDel(u.m, root), u.node)

FromRoot(m, node, key) ==
    IF node.err # "" THEN Abort(m, node.err)
    ELSE RootUpdated(treeDelete(m, node, key), m.root)

DeleteChecked(m, key, bad) ==
    IF bad # "" THEN Abort(m, bad)
    ELSE IF m.root = 0 THEN [m EXCEPT !.ret = 0]
    ELSE FromRoot(m, treeGet(m, m.root), key)

\* BTree.Delete; ret is the boolean it returns
Delete(m, key) == IF m.err # "" THEN m ELSE DeleteChecked(m, key, DeleteSizeCheck(key))

\* BTree.Get: its body is not among the sources, so it follows the description
\* of get: descend by nodeLookupLE, report found iff the key at the index
\* reached equals the search key.  [found, val, err]
Missing(msg) == [found |-> FALSE, val |-> <<>>, err |-> msg]

RECURSIVE treeLookup(_, _, _)

InLeaf(key, k, v) ==
    IF k = BadSlice \/ v = BadSlice THEN Missing("slice bounds out of range")
    ELSE IF k = key THEN [found |-> TRUE, val |-> v, err |-> ""]
    ELSE Missing("")

InKid(m, key, ptr) ==
    IF ptr = -1 THEN Missing("getPtr: index out of range")
    ELSE treeLookup(m, treeGet(m, ptr), key)

LookupAt(m, node, key, idx) ==
    IF idx = -1 THEN Missing("slice bounds out of range")
    ELSE IF btype(node) = BNODE_LEAF THEN InLeaf(key, getKey(node, idx), getVal(node, idx))
    ELSE IF btype(node) = BNODE_NODE THEN InKid(m, key, getPtr(node, idx))
    ELSE Missing("bad node!")

treeLookup(m, node, key) ==
    IF node.err # "" THEN Missing(node.err) ELSE LookupAt(m, node, key, nodeLookupLE(node, key))

Get(m, key) ==
    IF m.root = 0 THEN Missing("") ELSE treeLookup(m, treeGet(m, m.root), key)

\* ------------------------------------------------------------------------
\* The free list and the commit (key_value_freelist.go, key_value_persist.go)
\* ------------------------------------------------------------------------
\* a write through a slice FreeList.get returned: into the staged page when
\* the page is staged, into the file under the mapping otherwise
PutPage(m, ptr, node) ==
    IF m.err # "" THEN m
    ELSE IF ptr \in DOMAIN m.updates THEN [m EXCEPT !.updates[ptr] = node]
    ELSE IF MappedAt(m, ptr) = -1 THEN Abort(m, "pageGetMapped: bad ptr")
    ELSE [m EXCEPT !.file.pages[MappedAt(m, ptr) \div BTREE_PAGE_SIZE] = node.b]

\* phase 2, first loop: take pointers off the end of the node for reuse
RECURSIVE ReuseLoop(_, _, _, _)
ReuseLoop(node, remain, reuse, nfreed) ==
    IF remain > 0 /\ Len(reuse) * FREE_LIST_CAP < nfreed + remain
    THEN ReuseLoop(node, remain - 1, Append(reuse, flnPtr(node, remain - 1)), nfreed)
    ELSE [remain |-> remain, reuse |-> reuse]

\* phase 2, second loop: the pointers left in the node move to freed
MovePtrs(node, remain) == [i \in 1..remain |-> flnPtr(node, i - 1)]

\* an Update that keeps counting the pointers of the nodes it discards
DiscardNodeKept(total, node) == total

\* total -= flnSize(node)
DiscardNode(total, node) == total - flnSize(node)

\* the loop of Update over the head nodes; u = [m, popn, freed, reuse, total]
RECURSIVE UpdateLoop(_)

\* total -= flnSize(node); fl.head = flnNext(node)
Discarded(u, node, popn, freed, reuse) ==
    UpdateLoop([m |-> [u.m EXCEPT !.head = flnNext(node)],
                popn |-> popn, freed |-> freed, reuse |-> reuse,
                total |-> DiscardNode(u.total, node)])

Moved(u, node, freed, r, moved) ==
    IF \/ \E i \in 1..Len(r.reuse) : r.reuse[i] = -1
       \/ \E i \in 1..Len(moved) : moved[i] = -1
    THEN [u EXCEPT !.m = Abort(u.m, "slice bounds out of range")]
    ELSE Discarded(u, node, 0, freed \o moved, r.reuse)

\* phase 2
Reused(u, node, freed, r) == Moved(u, node, freed, r, MovePtrs(node, r.remain))

UpdateStep(u, node, freed) ==
    IF node.err # "" THEN [u EXCEPT !.m = Abort(u.m, node.err)]
    ELSE IF u.popn >= flnSize(node)
         THEN Discarded(u, node, u.popn - flnSize(node), freed, u.reuse)
    ELSE Reused(u, node, freed,
                ReuseLoop(node, flnSize(node) - u.popn, u.reuse, Len(freed)))

UpdateLoop(u) ==
    IF u.m.err # "" THEN u
    ELSE IF ~(u.m.head # 0 /\ Len(u.reuse) * FREE_LIST_CAP < Len(u.freed)) THEN u
    ELSE UpdateStep(u, pageGet(u.m, u.m.head), Append(u.freed, u.m.head))

Min(a, b) == IF a < b THEN a ELSE b

\* the node flPush builds for the first `size` pointers of freed
\* the byte at offset `at` of the slots once slot idx holds freed[idx + 1]
SlotByte(freed, at) == Le64(freed[(at \div 8) + 1])[(at % 8) + 1]

\* flnSetPtr(new, idx, freed[idx]) for every idx of S, none past the page
SlotsSet(new, freed, hit) ==
    [new EXCEPT !.b =
        [at \in (DOMAIN @ \ hit) \cup {h \in hit : SlotByte(freed, h - flnPtrOffset(0)) # 0} |->
            IF at \in hit THEN SlotByte(freed, at - flnPtrOffset(0)) ELSE @[at]]]

\* the loop of flnSetPtr over freed[i:size]; the first slot that does not fit
\* ends it
PushPtrs(new, freed, i, size) ==
    IF new.err # "" \/ i >= size THEN new
    ELSE IF \E idx \in i..(size - 1) : flnSetPtr(new, idx, 0).err # ""
         THEN Fail(new, "index out of range")
    ELSE SlotsSet(new, freed, {flnPtrOffset(idx) + k : idx \in i..(size - 1), k \in 0..7})

RECURSIVE flPush(_, _, _)

\* fl.head = fl.new(new)
Housed(a, rest, reuse) ==
    flPush(IF a.err # "" THEN a ELSE [a EXCEPT !.head = a.ret], rest, reuse)

PushNode(m, new, rest, reuse) ==
    IF new.err # "" THEN Abort(m, new.err)
    ELSE IF Len(reuse) > 0
         THEN flPush(pageUse([m EXCEPT !.head = reuse[1]], reuse[1], new), rest, Tail(reuse))
    ELSE Housed(pageAppend(m, new), rest, reuse)

PushSized(m, freed, reuse, size) ==
    PushNode(m, PushPtrs(flnSetHeader(make(BTREE_PAGE_SIZE), U16(size), m.head), freed, 0, size),
             SubSeq(freed, size + 1, Len(freed)), reuse)

flPush(m, freed, reuse) ==
    IF m.err # "" THEN m
    ELSE IF Len(freed) = 0
         THEN IF Len(reuse) # 0 THEN Abort(m, "flPush: all pages not reused from the list")
              ELSE m
    ELSE PushSized(m, freed, reuse, Min(Len(freed), FREE_LIST_CAP))

\* flnSetTotal(fl.get(fl.head), uint64(total+len(freed)))
TotalSet(p, head, total) ==
    IF p.err # "" THEN p
    ELSE IF head.err # "" THEN Abort(p, head.err)
    ELSE PutPage(p, p.head, flnSetTotal(head, total))

Pushed(p, total) == IF p.err # "" THEN p ELSE TotalSet(p, pageGet(p, p.head), total)

Rebuilt(u) ==
    IF u.m.err # "" THEN u.m
    ELSE IF Len(u.reuse) * FREE_LIST_CAP < Len(u.freed) /\ u.m.head # 0
         THEN Abort(u.m, "Update: invalid state")
    ELSE Pushed(flPush(u.m, u.freed, u.reuse), u.total + Len(u.freed))

UpdateFrom(m, popn, freed, total) ==
    IF total = -1 THEN Abort(m, "pageGet: bad ptr")
    ELSE IF popn > total
         THEN Abort(m, "Update: popn is larger than the total number of items")
    ELSE IF popn = 0 /\ Len(freed) = 0 THEN m
    ELSE Rebuilt(UpdateLoop([m |-> m, popn |-> popn, freed |-> freed,
                             reuse |-> <<>>, total |-> total]))

\* FreeList.Update(popn, freed)
Update(m, popn, freed) == IF m.err # "" THEN m ELSE UpdateFrom(m, popn, freed, FreeTotal(m))

\* --- key_value_persist.go
\* the file size extendFile asks for: grown by an eighth at a time
RECURSIVE GrowPages(_, _)
GrowPages(filePages, npages) ==
    IF filePages >= npages THEN filePages
    ELSE GrowPages(filePages + (IF filePages \div 8 < 1 THEN 1 ELSE filePages \div 8), npages)

\* fallocate(0, size): the file is at least size bytes long, new bytes are zero
Fallocate(file, size) ==
    IF size <= file.size THEN file
    ELSE [size |-> size,
          pages |-> [pg \in 0..(size \div BTREE_PAGE_SIZE - 1) |->
                        IF pg \in DOMAIN file.pages THEN file.pages[pg] ELSE NoBytes]]

extendFile(m, npages) ==
    IF m.err # "" THEN m
    ELSE IF m.mfile \div BTREE_PAGE_SIZE >= npages THEN m
    ELSE LET fileSize == GrowPages(m.mfile \div BTREE_PAGE_SIZE, npages) * BTREE_PAGE_SIZE
         IN [m EXCEPT !.file = Fallocate(@, fileSize), !.mfile = fileSize]

extendMmap(m, npages) ==
    IF m.err # "" THEN m
    ELSE IF m.mtotal >= npages * BTREE_PAGE_SIZE THEN m
    ELSE [m EXCEPT !.chunks = Append(@, [off |-> m.mtotal, len |-> m.mtotal]),
                   !.mtotal = @ + @]

\* copy(dst, d.data) onto the page image dst
CopyInto(dst, d) ==
    LET n == Min(d.len, BTREE_PAGE_SIZE)
        dom == {j \in DOMAIN dst : j >= n} \cup {j \in DOMAIN d.b : j < n}
    IN [i \in dom |-> IF i < n THEN d.b[i] ELSE dst[i]]

\* the pages of updates that hold data, and those pageDel marked
StagedData(m) == {ptr \in DOMAIN m.updates : ~m.updates[ptr].nil}

StagedFreed(m) == {ptr \in DOMAIN m.updates : m.updates[ptr].nil}

\* the copy loop of writePages over the staged pages in S
CopyPages(m, S) ==
    IF m.err # "" THEN m
    ELSE IF \E ptr \in S : pageGetMapped(m, ptr).err # ""
         THEN Abort(m, (pageGetMapped(m, CHOOSE ptr \in S : pageGetMapped(m, ptr).err # "")).err)
    ELSE [m EXCEPT !.file.pages =
             [pg \in DOMAIN @ |->
                 IF \E ptr \in S : MappedAt(m, ptr) = pg * BTREE_PAGE_SIZE
                 THEN CopyInto(@[pg], m.updates[CHOOSE ptr \in S :
                                                  MappedAt(m, ptr) = pg * BTREE_PAGE_SIZE])
                 ELSE @[pg]]]

\* extendFile(db, npages); extendMmap(db, npages)
ExtendTo(u, npages) == extendMmap(extendFile(u, npages), npages)

\* the extension asked for the flushed pages only, the appended ones left out
ExtendedBefore(u) == ExtendTo(u, u.flushed)

\* npages := int(db.page.flushed) + db.page.nappend
Extended(u) == ExtendTo(u, u.flushed + u.nappend)

\* writePages up to its copy loop; freed is the order the range over the map
\* met the deleted pages in
writePrepare(m, freed) == Extended(Update(m, m.nfree, freed))

\* the copy loop of writePages run to its end
Copied(w) == CopyPages(w, StagedData(w))

writePages(m, freed) == Copied(writePrepare(m, freed))

\* the 32 bytes of the master page
MasterImage(m) == DB_SIG \o <<0, 0, 0, 0, 0>> \o Le64(m.root) \o Le64(m.flushed)

\* fp.WriteAt(data, 0)
WriteAt0(file, data) ==
    LET f == Fallocate(file, BTREE_PAGE_SIZE)
        page == [nil |-> FALSE, len |-> BTREE_PAGE_SIZE, cap |-> BTREE_PAGE_SIZE,
                 b |-> f.pages[0], err |-> ""]
    IN [f EXCEPT !.pages[0] = Write(page, 0, data).b]

masterStore(m) == IF m.err # "" THEN m ELSE [m EXCEPT !.file = WriteAt0(@, MasterImage(m))]

\* syncPages up to the master page
syncPrepare(m) ==
    IF m.err # "" THEN m
    ELSE [m EXCEPT !.flushed = @ + m.nappend,
                   !.updates = [q \in {} |-> NilData],
                   !.updNil = FALSE]

syncPages(m) == masterStore(syncPrepare(m))

flushPages(m, freed) == syncPages(writePages(m, freed))

\* the mapping Open makes: 64 MB, doubled until it covers the file
RECURSIVE MmapSize(_, _)
MmapSize(size, fileSize) ==
    IF size >= fileSize THEN size ELSE MmapSize(size * 2, fileSize)

mmapInit(m) ==
    IF m.file.size % BTREE_PAGE_SIZE # 0
    THEN Abort(m, "file size is not a multiple of page size")
    ELSE [m EXCEPT !.mfile = m.file.size,
                   !.mtotal = MmapSize(MMAP_INIT_SIZE, m.file.size),
                   !.chunks = <<[off |-> 0, len |-> MmapSize(MMAP_INIT_SIZE, m.file.size)]>>]

\* bytes.Equal([]byte(DB_SIG), data[:16])
SigEqual(data) == DB_SIG = Slice(data, 0, 16)

masterLoad(m) ==
    IF m.err # "" THEN m
    ELSE IF m.mfile = 0 THEN [m EXCEPT !.flushed = 1]
    ELSE LET data == pageGetMapped(m, 0)
             root == Uint64(data, 16)
             used == Uint64(data, 24)
         IN IF ~SigEqual(data) THEN Abort(m, "bad Signature")
            ELSE IF ~(1 <= used /\ used <= m.mfile \div BTREE_PAGE_SIZE) \/ ~(root < used)
                 THEN Abort(m, "bad master page")
            ELSE [m EXCEPT !.root = root, !.flushed = used]

\* ------------------------------------------------------------------------
\* State
\* ------------------------------------------------------------------------
VARIABLES
    c,      \* the test Container: [root, pages, ref, err, calls]
    clast,  \* the Container's last call: [op, key, val, ret, log, pre]
    db,     \* the KeyValue struct of the running process
    file,   \* the database file: [size, pages]
    pc,     \* "closed", "open", "failed" (Open returned an error), "dead"
    last,   \* the store's last call
    nops    \* calls made on the store so far

cvars == <<c, clast>>

kvars == <<db, file, pc, last, nops>>

vars == <<c, clast, db, file, pc, last, nops>>

NoVal == <<>>

NotFound == Missing("")

\* what Get answers for every key of the model
Contents(m) == [k \in Keys |-> Get(m, k)]

\* --- the test Container (part_000:278-331)
\* the machine of a Container handler
ContainerMachine ==
    [kind |-> "mem", root |-> c.root, pages |-> c.pages, held |-> {},
     err |-> "", ret |-> 0, log |-> <<>>]

\* newContainer()
NewContainer ==
    [root |-> 0, pages |-> <<>>, ref |-> [k \in Keys |-> NoVal], err |-> "", calls |-> 0]

\* the root leaf n - 2 inserts of new keys leave: no offset is ever stored
\* (setOffSet), so every leafInsert puts its pair at 4 + 10 * nkeys and the
\* pairs before it are gone
GrownLeaf(n, key, val) ==
    Truncate(nodeAppendKV(setHeader(make(2 * BTREE_PAGE_SIZE), BNODE_LEAF, U16(n)),
                          1, 0, key, val),
             BTREE_PAGE_SIZE)

\* the Container after GrownSlots - 1 adds of val that alternate between the
\* keys <<1>> and <<2>>, <<1>> first: the pages alternate between two addresses
GrownContainer(val) ==
    LET root == IF GrownSlots % 2 = 0 THEN 1 ELSE 2
        key == IF GrownSlots % 2 = 0 THEN <<1>> ELSE <<2>>
    IN [root |-> root,
        pages |-> [p \in {root} |-> GrownLeaf(GrownSlots, key, val)],
        ref |-> [k \in Keys |-> IF k \in {<<1>>, <<2>>} THEN val ELSE NoVal],
        err |-> "", calls |-> 0]

\* every root leaf a run of adds builds from the third slot on is such a leaf:
\* this holds along every run from NewContainer, and each add takes a leaf
\* of that shape to the one with the next slot count
LeafShape ==
    (c.err = "" /\ c.root # 0 /\ nkeys(c.pages[c.root]) \in 3..GrownSlots) =>
        c.pages[c.root] = GrownLeaf(nkeys(c.pages[c.root]),
                                    getKey(c.pages[c.root], 1), getVal(c.pages[c.root], 1))

NoCall ==
    [op |-> "none", key |-> <<>>, val |-> <<>>, ret |-> 0, log |-> <<>>,
     pre |-> [k \in Keys |-> NotFound]]

ContainerStates == {NewContainer} \cup {GrownContainer(v) : v \in Vals}

\* Container.add: the tree first, then the reference map
Added(key, val, m) ==
    /\ c' = IF m.err # "" THEN [c EXCEPT !.err = m.err, !.calls = @ + 1]
            ELSE [c EXCEPT !.root = m.root, !.pages = m.pages, !.ref[key] = val,
                           !.calls = @ + 1]
    /\ clast' = [op |-> "add", key |-> key, val |-> val, ret |-> 0, log |-> m.log,
                 pre |-> Contents(ContainerMachine)]

ContainerAdd(key, val) ==
    /\ c.err = ""
    /\ c.calls < MaxCalls
    /\ Added(key, val, Insert(ContainerMachine, key, val))
    /\ UNCHANGED kvars

\* Container.del: the reference map first, then the tree
Removed(key, m) ==
    /\ c' = IF m.err # ""
            THEN [c EXCEPT !.err = m.err, !.ref[key] = NoVal, !.calls = @ + 1]
            ELSE [c EXCEPT !.root = m.root, !.pages = m.pages, !.ref[key] = NoVal,
                           !.calls = @ + 1]
    /\ clast' = [op |-> "del", key |-> key, val |-> <<>>, ret |-> m.ret, log |-> m.log,
                 pre |-> Contents(ContainerMachine)]

ContainerDel(key) ==
    /\ c.err = ""
    /\ c.calls < MaxCalls
    /\ Removed(key, Delete(ContainerMachine, key))
    /\ UNCHANGED kvars

\* --- the KeyValue store (part_001:112-276)
\* a KeyValue{Path: ...} nobody has opened: every field is the zero value,
\* updates is the nil map
ZeroDB ==
    [root |-> 0, head |-> 0, flushed |-> 0, nfree |-> 0, nappend |-> 0,
     updates |-> [q \in {} |-> NilData], updNil |-> TRUE,
     mfile |-> 0, mtotal |-> 0, chunks |-> <<>>]

EmptyFile == [size |-> 0, pages |-> [pg \in {} |-> NoBytes]]

Machine(d, f) ==
    [kind |-> "kv", root |-> d.root, head |-> d.head, flushed |-> d.flushed,
     nfree |-> d.nfree, nappend |-> d.nappend, updates |-> d.updates, updNil |-> d.updNil,
     mfile |-> d.mfile, mtotal |-> d.mtotal, chunks |-> d.chunks,
     file |-> f, err |-> "", ret |-> 0, log |-> <<>>]

KVMachine == Machine(db, file)

StructOf(m) ==
    [root |-> m.root, head |-> m.head, flushed |-> m.flushed,
     nfree |-> m.nfree, nappend |-> m.nappend, updates |-> m.updates, updNil |-> m.updNil,
     mfile |-> m.mfile, mtotal |-> m.mtotal, chunks |-> m.chunks]

\* the orders a range over a map can meet the members of S in
Orders(S) ==
    {f \in [1..Cardinality(S) -> S] : \A i, j \in 1..Cardinality(S) : f[i] = f[j] => i = j}

\* what the store was before the call: [root, flushed, size]
Was == [root |-> db.root, flushed |-> db.flushed, size |-> file.size]

NoOp ==
    [op |-> "none", key |-> <<>>, val |-> <<>>, ret |-> 0, err |-> "", log |-> <<>>,
     pre |-> [k \in Keys |-> NotFound], post |-> [k \in Keys |-> NotFound],
     was |-> [root |-> 0, flushed |-> 0, size |-> 0], after |-> "", call |-> "",
     point |-> ""]

KVInit ==
    /\ db = ZeroDB
    /\ file = EmptyFile
    /\ pc = "closed"
    /\ last = NoOp
    /\ nops = 0

\* KeyValue.Open on a new struct
OpenMachine == masterLoad(mmapInit(Machine(ZeroDB, file)))

Opened(m) ==
    /\ db' = IF m.err # "" THEN ZeroDB ELSE StructOf(m)
    /\ pc' = IF m.err # "" THEN "failed" ELSE "open"
    /\ last' = [last EXCEPT !.op = "open", !.err = m.err, !.after = last.op,
                            !.log = <<>>, !.ret = 0]

Open ==
    /\ pc \in {"closed", "failed", "dead"}
    /\ nops < MaxOps
    /\ Opened(OpenMachine)
    /\ nops' = nops + 1
    /\ UNCHANGED <<file, c, clast>>

Closing(contents) ==
    last' = [NoOp EXCEPT !.op = "close", !.pre = contents, !.post = contents, !.was = Was]

\* KeyValue.Close
Close ==
    /\ pc = "open"
    /\ nops < MaxOps
    /\ pc' = "closed"
    /\ db' = ZeroDB
    /\ Closing(Contents(KVMachine))
    /\ nops' = nops + 1
    /\ UNCHANGED <<file, c, clast>>

\* a call that ran to its end, or to the panic that killed the process; pre
\* is what the store held before it
Finished(call, key, val, ret, m, pre) ==
    /\ db' = IF m.err # "" THEN ZeroDB ELSE StructOf(m)
    /\ file' = m.file
    /\ pc' = IF m.err # "" THEN "dead" ELSE "open"
    /\ last' = [NoOp EXCEPT !.op = call, !.key = key, !.val = val,
                            !.ret = IF m.err # "" THEN 0 ELSE ret,
                            !.err = m.err, !.log = m.log, !.pre = pre,
                            !.post = IF m.err # "" THEN pre
                                     ELSE Contents(Machine(StructOf(m), m.file)),
                            !.was = Was]
    /\ nops' = nops + 1
    /\ UNCHANGED <<c, clast>>

\* return flushPages(db) after the tree operation that left the machine t
Commit(call, key, val, t) ==
    \E freed \in Orders(StagedFreed(t)) :
        Finished(call, key, val, t.ret, flushPages(t, freed), Contents(KVMachine))

\* KeyValue.Set
Set(key, val) ==
    /\ pc = "open"
    /\ nops < MaxOps
    /\ Commit("set", key, val, Insert(KVMachine, key, val))

\* KeyValue.Del
Del(key) ==
    /\ pc = "open"
    /\ nops < MaxOps
    /\ Commit("del", key, <<>>, Delete(KVMachine, key))

\* the process dies inside flushPages, at one of
\*   "start" : before writePages touched the file
\*   "copy"  : in the copy loop of writePages, the pages in S copied
\*   "copied": after the copy loop, before the master page is written
\*   "master": after the master page is written
\* w is the machine at the copy loop, full the machine at the end of flushPages
Crashed(call, key, val, w, full) ==
    /\ full.err = ""
    /\ \E point \in {"start", "copy", "copied", "master"} :
       \E S \in SUBSET StagedData(w) :
          /\ (point = "copy") = (S # StagedData(w))
          /\ file' = CASE point = "start" -> file
                       [] point \in {"copy", "copied"} -> CopyPages(w, S).file
                       [] OTHER -> full.file
          /\ last' = [NoOp EXCEPT !.op = "crash", !.key = key, !.val = val,
                                  !.log = full.log,
                                  !.pre = Contents(KVMachine),
                                  !.post = Contents(Machine(StructOf(full), full.file)),
                                  !.was = Was, !.call = call, !.point = point]
    /\ db' = ZeroDB
    /\ pc' = "dead"
    /\ nops' = nops + 1
    /\ UNCHANGED <<c, clast>>

CrashAt(call, key, val, w) == Crashed(call, key, val, w, syncPages(Copied(w)))

\* t is the machine the tree operation left
CrashIn(call, key, val, t) ==
    /\ t.err = ""
    /\ \E freed \in Orders(StagedFreed(t)) : CrashAt(call, key, val, writePrepare(t, freed))

CrashInSet(key, val) ==
    /\ pc = "open"
    /\ nops < MaxOps
    /\ CrashIn("set", key, val, Insert(KVMachine, key, val))

CrashInDel(key) ==
    /\ pc = "open"
    /\ nops < MaxOps
    /\ CrashIn("del", key, <<>>, Delete(KVMachine, key))

\* ------------------------------------------------------------------------
\* Specifications
\* ------------------------------------------------------------------------
Init == KVInit /\ c = NewContainer /\ clast = NoCall

Next ==
    \/ Open
    \/ Close
    \/ \E key \in Keys, val \in Vals : Set(key, val)
    \/ \E key \in Keys : Del(key)
    \/ \E key \in Keys, val \in Vals : CrashInSet(key, val)
    \/ \E key \in Keys : CrashInDel(key)

\* the file-backed store
Spec == Init /\ [][Next]_vars

TreeInit == c = NewContainer /\ clast = NoCall /\ KVInit

TreeNext ==
    \/ \E key \in Keys, val \in Vals : ContainerAdd(key, val)
    \/ \E key \in Keys : ContainerDel(key)

\* the tree over the in-memory test Container
SpecTree == TreeInit /\ [][TreeNext]_vars

\* the same Container, new or long-lived
GrownInit == c \in ContainerStates /\ clast = NoCall /\ KVInit

SpecGrown == GrownInit /\ [][TreeNext]_vars

\* ------------------------------------------------------------------------
\* Properties of the file-backed store
\* ------------------------------------------------------------------------
\* the page ids reachable from page ptr of the tree, at most `fuel` levels down
RECURSIVE PagesUnder(_, _, _)

KidsUnder(m, ptr, node, fuel) ==
    IF node.err # "" \/ btype(node) # BNODE_NODE \/ fuel = 0 THEN {ptr}
    ELSE {ptr} \cup UNION {PagesUnder(m, getPtr(node, i), fuel - 1) : i \in 0..(nkeys(node) - 1)}

PagesUnder(m, ptr, fuel) == KidsUnder(m, ptr, treeGet(m, ptr), fuel)

TreePages(m) == IF m.root = 0 THEN {} ELSE PagesUnder(m, m.root, m.flushed)

\* the ids of the free-list nodes from ptr on and the pointers stored in them
RECURSIVE ListPages(_, _, _)

NodePages(m, ptr, node, fuel) ==
    {ptr} \cup {flnPtr(node, i) : i \in 0..(flnSize(node) - 1)}
          \cup ListPages(m, flnNext(node), fuel - 1)

ListPages(m, ptr, fuel) ==
    IF ptr = 0 \/ fuel = 0 THEN {} ELSE NodePages(m, ptr, pageGet(m, ptr), fuel)

FreePages(m) == ListPages(m, m.head, m.flushed)

\* the sum of the size fields of the free-list nodes from ptr on
RECURSIVE ListSizes(_, _, _)

NodeSizes(m, node, fuel) == flnSize(node) + ListSizes(m, flnNext(node), fuel - 1)

ListSizes(m, ptr, fuel) ==
    IF ptr = 0 \/ fuel = 0 THEN 0 ELSE NodeSizes(m, pageGet(m, ptr), fuel)

\* the last call was a set or del that returned without an error
Committed == pc = "open" /\ last.op \in {"set", "del"}

PageCalls(cbs) == {i \in 1..Len(last.log) : last.log[i].cb \in cbs}

\* C1: read-your-write: set(k, v) completes without aborting and the get(k)
\* that follows it returns (v, true).
C1_ReadYourWrite ==
    last.op = "set" =>
        /\ last.err = ""
        /\ last.post[last.key] = [found |-> TRUE, val |-> last.val, err |-> ""]

\* C4: after a crash inside the commit of a set or del, reopening the file
\* succeeds and the store holds the contents before the call or the contents
\* after it.
C4_CrashConsistency ==
    (last.op = "open" /\ last.after = "crash") =>
        /\ pc = "open"
        /\ Contents(KVMachine) \in {last.pre, last.post}

C6_Persistence ==
    (last.op = "open" /\ last.after = "close") =>
        /\ pc = "open"
        /\ db.root = last.was.root
        /\ db.flushed = last.was.flushed
        /\ Contents(KVMachine) = last.pre

Partition(T, F, flushed) ==
    /\ T \cap F = {}
    /\ 0 \notin T \cup F
    /\ T \cup F \cup {0} = 0..(flushed - 1)

\* C7: after every successful commit the pages of the tree, the pages of the
\* free list and {0} are pairwise disjoint and together are 0..flushed-1.
C7_PagePartition ==
    Committed => Partition(TreePages(KVMachine), FreePages(KVMachine), db.flushed)

\* C8: pageNew and pageAppend never return 0, pageUse is never called with 0,
\* and after every commit every page p of the tree has p # 0 and p < flushed.
C8_PageZeroReserved ==
    /\ \A i \in PageCalls({"new", "append", "use"}) : last.log[i].ptr # 0
    /\ Committed => \A p \in TreePages(KVMachine) : p # 0 /\ p < db.flushed

\* a commit that allocated a tree page and appended a free-list node
C8_Witness ==
    /\ Committed
    /\ db.root # 0
    /\ PageCalls({"new"}) # {}
    /\ PageCalls({"append"}) # {}

\* C9: after every successful commit the total read from the free-list head
\* (0 when head = 0) is the sum of the size fields of the nodes of the list.
C9_FreeListTotal ==
    Committed => FreeTotal(KVMachine) = ListSizes(KVMachine, db.head, db.flushed)

\* a commit that took a page from the free list and left a list of two pointers
C9_Witness ==
    /\ Committed
    /\ last.was.flushed > 2
    /\ db.head # 0
    /\ FreeTotal(KVMachine) = 2
    /\ \E i \in PageCalls({"new"}) : last.log[i].ptr < last.was.flushed

\* ------------------------------------------------------------------------
\* Properties of the tree over the test Container
\* ------------------------------------------------------------------------
\* what the reference map says Get answers for k
RefAnswer(k) ==
    IF c.ref[k] = NoVal THEN Missing("") ELSE [found |-> TRUE, val |-> c.ref[k], err |-> ""]

\* C2: the tree refines the reference map: after any run of add and del that
\* did not abort, Get answers for every key what the map ref holds for it.
C2_RefinesMap ==
    c.err = "" => \A k \in Keys : Get(ContainerMachine, k) = RefAnswer(k)

\* C3: del of a key that is present completes, returns true, leaves the key
\* not found and every other key with the answer it had.
C3_DeleteThenGet ==
    (clast.op = "del" /\ clast.pre[clast.key].found) =>
        /\ c.err = ""
        /\ clast.ret = 1
        /\ ~Get(ContainerMachine, clast.key).found
        /\ \A k \in Keys \ {clast.key} : Get(ContainerMachine, k) = clast.pre[k]

\* the calls of the new callback the last add or del made
NewCalls == {i \in 1..Len(clast.log) : clast.log[i].cb = "new"}

\* C10: every node the tree hands to its new callback has nbytes <= 4096 and
\* at least one key.
C10_NodesFitPage ==
    \A i \in NewCalls :
        /\ clast.log[i].nbytes >= 0
        /\ clast.log[i].nbytes <= BTREE_PAGE_SIZE
        /\ clast.log[i].nkeys >= 1

\* an add that took the root leaf to the last slot count whose nbytes fits
C10_Witness ==
    \E i \in NewCalls :
        /\ clast.op = "add"
        /\ clast.log[i].nkeys = (BTREE_PAGE_SIZE - HEADER) \div 10
        /\ c.err = ""

\* ------------------------------------------------------------------------
\* Properties of the nodes of the tree
\* ------------------------------------------------------------------------
\* the pages of the Container's tree
ContainerPages ==
    IF c.root = 0 THEN {} ELSE PagesUnder(ContainerMachine, c.root, Cardinality(DOMAIN c.pages))

\* the keys of the node ascend strictly
NodeSorted(node) ==
    \A i \in 0..(nkeys(node) - 2) : bytesCompare(getKey(node, i), getKey(node, i + 1)) < 0

\* every key of an internal node is the first key of the kid beside it
Separates(m, node) ==
    btype(node) = BNODE_NODE =>
        \A i \in 0..(nkeys(node) - 1) : getKey(node, i) = getKey(treeGet(m, getPtr(node, i)), 0)

NodeOrdered(m, node) == NodeSorted(node) /\ Separates(m, node)

\* C11: after any sequence of inserts and deletes, in every node of the tree
\* the keys ascend strictly, and the key at slot i of an internal node is the
\* first key of the child slot i points to.
C11_SeparatorInvariant ==
    c.err = "" => \A p \in ContainerPages : NodeOrdered(ContainerMachine, c.pages[p])

\* ------------------------------------------------------------------------
\* The store under inputs of every size class
\* ------------------------------------------------------------------------
Filled(n, byte) == [i \in 1..n |-> byte]

\* a key of the model, the empty key, a key of the largest size and one a byte
\* longer
AnyKeys ==
    {<<1>>, <<>>, Filled(BTREE_MAX_KEY_SIZE, 1), Filled(BTREE_MAX_KEY_SIZE + 1, 1)}

\* a value of the model, a value of the largest size and one a byte longer
AnyVals == {<<101>>, Filled(BTREE_MAX_VAL_SIZE, 101), Filled(BTREE_MAX_VAL_SIZE + 1, 101)}

InputNext ==
    /\ nops < MaxInputOps
    /\ \/ Open
       \/ \E key \in AnyKeys, val \in AnyVals : Set(key, val)
       \/ \E key \in AnyKeys : Del(key)

\* the file-backed store called with valid and invalid keys and values
SpecInput == Init /\ [][InputNext]_vars

BadKey(key) == Len(key) = 0 \/ Len(key) > BTREE_MAX_KEY_SIZE

BadVal(val) == Len(val) > BTREE_MAX_VAL_SIZE

\* the tree operation stopped in t before it touched the machine it started on
Rejected(t) == t.err # "" /\ t.log = <<>> /\ [t EXCEPT !.err = ""] = KVMachine

SizeErrors ==
    {"Insert: key is of size 0", "Insert: key is larger than max key size",
     "Insert: val is larger than max val size",
     "Delete: key is of size 0", "Delete: key is larger than max key size"}

\* a call of the store has just been made
Called(op) == nops' # nops /\ last'.op = op

\* C12: set with an empty key, a key over 1000 bytes or a value over 3000
\* bytes, and del with an empty or over-long key, abort before any page
\* callback and before the commit: file, root, updates, nappend and nfree are
\* unchanged.  Keys of 1000 bytes and values of 3000 bytes pass the checks.
C12_InvalidInputRejected ==
    [][/\ (Called("set") /\ (BadKey(last'.key) \/ BadVal(last'.val))) =>
            /\ Rejected(Insert(KVMachine, last'.key, last'.val))
            /\ last'.err \in SizeErrors /\ last'.log = <<>> /\ file' = file
       /\ (Called("del") /\ BadKey(last'.key)) =>
            /\ Rejected(Delete(KVMachine, last'.key))
            /\ last'.err \in SizeErrors /\ last'.log = <<>> /\ file' = file
       /\ ((Called("set") \/ Called("del")) /\ ~BadKey(last'.key) /\ ~BadVal(last'.val)) =>
            last'.err \notin SizeErrors]_vars

\* a set with a value a byte too long was rejected, and so was the del of the
\* empty key, on a store that holds a key
C12_Witness ==
    \/ last.op = "set" /\ Len(last.val) = BTREE_MAX_VAL_SIZE + 1 /\ ~BadKey(last.key)
         /\ last.err \in SizeErrors /\ last.was.root # 0
    \/ last.op = "del" /\ last.key = <<>> /\ last.err \in SizeErrors /\ last.was.root # 0

\* a set of a key of 1000 bytes and a value of 3000 bytes that committed
C12_Accepted ==
    /\ last.op = "set" /\ Len(last.key) = BTREE_MAX_KEY_SIZE
    /\ Len(last.val) = BTREE_MAX_VAL_SIZE /\ last.err = ""

CommitErrors == {"fallocate", "mmap", "fsync", "write master page", "fsync master"}

\* whether the commit that stands at u, after free.Update, calls the primitive
CallsPrimitive(u, point) ==
    CASE point = "fallocate" -> u.mfile \div BTREE_PAGE_SIZE < u.flushed + u.nappend
      [] point = "mmap" -> u.mtotal < (u.flushed + u.nappend) * BTREE_PAGE_SIZE
      [] OTHER -> TRUE

\* the machine flushPages leaves when it returns the error of the primitive:
\* w is u after extendFile and extendMmap
FailedFrom(u, w, point) ==
    CASE point = "fallocate" -> u
      [] point = "mmap" -> extendFile(u, u.flushed + u.nappend)
      [] point = "fsync" -> Copied(w)
      [] point = "write master page" -> syncPrepare(Copied(w))
      [] OTHER -> syncPages(Copied(w))

FailedAt(u, point) == FailedFrom(u, Extended(u), point)

\* Set or Del returns the error; the process goes on with the struct as
\* flushPages left it
Failed(call, key, val, u, f, point) ==
    /\ CallsPrimitive(u, point)
    /\ f.err = ""
    /\ db' = StructOf(f)
    /\ file' = f.file
    /\ pc' = "open"
    /\ last' = [NoOp EXCEPT !.op = call, !.key = key, !.val = val, !.err = point,
                            !.log = f.log, !.pre = Contents(KVMachine),
                            !.post = Contents(Machine(StructOf(f), f.file)),
                            !.was = Was, !.call = call, !.point = point]
    /\ nops' = nops + 1
    /\ UNCHANGED <<c, clast>>

FailedIn(call, key, val, u) ==
    \E point \in CommitErrors : Failed(call, key, val, u, FailedAt(u, point), point)

\* t is the machine the tree operation left
FailIn(call, key, val, t) ==
    /\ t.err = ""
    /\ \E freed \in Orders(StagedFreed(t)) :
          FailedIn(call, key, val, Update(t, t.nfree, freed))

FailInSet(key, val) ==
    /\ pc = "open"
    /\ nops < MaxOps
    /\ FailIn("set", key, val, Insert(KVMachine, key, val))

FailInDel(key) ==
    /\ pc = "open"
    /\ nops < MaxOps
    /\ FailIn("del", key, <<>>, Delete(KVMachine, key))

FailNext ==
    \/ Open
    \/ \E key \in Keys, val \in Vals : Set(key, val)
    \/ \E key \in Keys : Del(key)
    \/ \E key \in Keys, val \in Vals : FailInSet(key, val)
    \/ \E key \in Keys : FailInDel(key)

\* the file-backed store on a system whose primitives can fail
SpecFail == Init /\ [][FailNext]_vars

\* what a process that opens the file finds committed in it
Found(o) == [err |-> o.err, root |-> o.root, flushed |-> o.flushed]

OnDisk(f) == Found(masterLoad(mmapInit(Machine(ZeroDB, f))))

\* the fields of the struct a commit stages in
Staging(d) ==
    [updates |-> DOMAIN d.updates, nappend |-> d.nappend, nfree |-> d.nfree,
     flushed |-> d.flushed, root |-> d.root, head |-> d.head]

\* C14: when extendFile, extendMmap, an fsync or the write of the master page
\* fails and set/del returns the error, the state committed in the file is the
\* one before the call, and updates, nappend, nfree, flushed, root and head are
\* what they were before the call.
C14_FailureRollsBack ==
    [][((Called("set") \/ Called("del")) /\ last'.err \in CommitErrors) =>
            /\ OnDisk(file') = OnDisk(file)
            /\ Staging(db') = Staging(db)]_vars

\* ------------------------------------------------------------------------
\* Open on files with every kind of master page
\* ------------------------------------------------------------------------
\* most pages a file of this part has
MaxFilePages == 3

\* TreeVaultDB and five NULs; TreeVaultDB and five spaces; sixteen X; all zero
Signatures ==
    {DB_SIG \o Filled(5, 0), DB_SIG \o Filled(5, 32), Filled(16, 88), Filled(16, 0)}

\* a file of n pages whose page 0 starts with the bytes data
FileOf(n, data) ==
    [size |-> n * BTREE_PAGE_SIZE,
     pages |-> [pg \in 0..(n - 1) |->
                   IF pg = 0 THEN Write(make(BTREE_PAGE_SIZE), 0, data).b ELSE NoBytes]]

MasterFiles ==
    {EmptyFile} \cup
    {FileOf(n, sig \o Le64(root) \o Le64(used)) :
        n \in 1..MaxFilePages, sig \in Signatures,
        root \in 0..MaxFilePages, used \in 0..(MaxFilePages + 1)}

MasterInit ==
    /\ file \in MasterFiles
    /\ db = ZeroDB /\ pc = "closed" /\ last = NoOp /\ nops = 0
    /\ c = NewContainer /\ clast = NoCall

\* Open on a file somebody else wrote
SpecMaster == MasterInit /\ [][Open]_vars

\* page 0 of the file as a slice
Page0(f) ==
    [nil |-> FALSE, len |-> BTREE_PAGE_SIZE, cap |-> BTREE_PAGE_SIZE,
     b |-> f.pages[0], err |-> ""]

\* the master page holds the padded signature, 1 <= used <= size / P and
\* root < used
MasterValid(f, data) ==
    /\ Slice(data, 0, 16) = DB_SIG \o Filled(5, 0)
    /\ 1 <= Uint64(data, 24)
    /\ Uint64(data, 24) <= f.size \div BTREE_PAGE_SIZE
    /\ Uint64(data, 16) < Uint64(data, 24)

Loaded(data) == db.root = Uint64(data, 16) /\ db.flushed = Uint64(data, 24)

\* C15: on a file that is not empty Open succeeds iff the master page is
\* valid, and then root and flushed are the stored values; on an empty file
\* it succeeds with flushed = 1 and root = 0; when it fails root and flushed
\* are unchanged.
C15_MasterValidation ==
    last.op = "open" =>
        IF file.size = 0 THEN pc = "open" /\ db.root = 0 /\ db.flushed = 1
        ELSE /\ (pc = "open") = MasterValid(file, Page0(file))
             /\ pc = "open" => Loaded(Page0(file))
             /\ pc # "open" => db.root = 0 /\ db.flushed = 0

\* ------------------------------------------------------------------------
\* Properties of consecutive calls
\* ------------------------------------------------------------------------
\* the bytes of the root page of the Container's tree
RootImage == IF c.root = 0 THEN NoBytes ELSE Image(c.pages[c.root], BTREE_PAGE_SIZE)

\* the machine t a second add(key, val) leaves holds the root page and the
\* contents the first one left
SameTree(t) ==
    /\ t.err = ""
    /\ t.root # 0
    /\ Image(t.pages[t.root], BTREE_PAGE_SIZE) = RootImage
    /\ nkeys(t.pages[t.root]) = nkeys(c.pages[c.root])
    /\ Contents(t) = Contents(ContainerMachine)

\* C16: set(k, v) twice leaves the root page and the key/value contents that
\* set(k, v) once leaves: the second set changes no key count.
C16_IdempotentSet ==
    (clast.op = "add" /\ c.err = "") =>
        SameTree(Insert(ContainerMachine, clast.key, clast.val))

\* the pages the last call appended to the file
AppendedPages ==
    {i \in PageCalls({"new", "append"}) : last.log[i].ptr >= last.was.flushed}

\* C17: after every successful set/del flushed has grown by the number of
\* pages that commit appended, updates is empty, nappend = 0 and nfree = 0.
C17_CommitLeavesIdle ==
    Committed =>
        /\ db.flushed = last.was.flushed + Cardinality(AppendedPages)
        /\ DOMAIN db.updates = {}
        /\ db.nappend = 0
        /\ db.nfree = 0

\* the page callbacks log[i..] follow the allocation policy from the counters
\* nf = nfree and na = nappend, on the free list of the store before the call
\* (total pointers), and leave the counters nfree and nappend
RECURSIVE PolicyFrom(_, _, _, _, _, _, _)
PolicyFrom(log, i, nf, na, total, nfree, nappend) ==
    IF i > Len(log) THEN nf = nfree /\ na = nappend
    ELSE IF log[i].cb = "new" /\ nf < total
         THEN /\ log[i].ptr = FreeGet(KVMachine, nf)
              /\ PolicyFrom(log, i + 1, nf + 1, na, total, nfree, nappend)
    ELSE IF log[i].cb \in {"new", "append"}
         THEN /\ log[i].ptr = db.flushed + na
              /\ PolicyFrom(log, i + 1, nf, na + 1, total, nfree, nappend)
    ELSE PolicyFrom(log, i + 1, nf, na, total, nfree, nappend)

\* the ids the callbacks new and append returned, in the order of the calls
Returned(log) == SelectSeq(log, LAMBDA e : e.cb \in {"new", "append"})

\* no id twice, and none that is a page of the tree
FreshIds(ids, tree) ==
    /\ \A i, j \in DOMAIN ids : ids[i].ptr = ids[j].ptr => i = j
    /\ \A i \in DOMAIN ids : ids[i].ptr \notin tree

\* the node a new callback was given is the page at its id
StagedAt(f, log) ==
    \A i \in DOMAIN log :
        log[i].cb = "new" =>
            /\ log[i].ptr \in DOMAIN f.pages
            /\ Byte([b |-> f.pages[log[i].ptr]], 2) = log[i].nkeys % 256

\* C18: pageNew returns free.get(nfree) and increments nfree while
\* nfree < free.total, and otherwise returns flushed + nappend and increments
\* nappend; it stages the node at the id; the ids pageNew and pageAppend
\* return within one commit are pairwise distinct and are no page of the tree.
C18_AllocationPolicy ==
    [][((Called("set") \/ Called("del")) /\ last'.err = "") =>
          /\ PolicyFrom(last'.log, 1, db.nfree, db.nappend, FreeTotal(KVMachine),
                        db'.nfree, db'.nappend)
          /\ StagedAt(file', last'.log)
          /\ FreshIds(Returned(last'.log), TreePages(KVMachine))]_vars

\* a commit whose pageNew took a page from the free list, and one that
\* appended
C18_Witness ==
    /\ Committed
    /\ \E i \in PageCalls({"new"}) : last.log[i].ptr < last.was.flushed
    /\ \E i \in PageCalls({"append"}) : last.log[i].ptr >= last.was.flushed

\* the panics of the assertions of the Container's callbacks
AssertionErrors == {"could not find page", "the page has data in it", "page does not exist"}

\* the pages from ptr down to the leaf that key belongs to
RECURSIVE PathFrom(_, _, _, _)

PathDown(m, ptr, node, key, fuel) ==
    IF node.err # "" \/ btype(node) # BNODE_NODE \/ fuel = 0 THEN <<ptr>>
    ELSE <<ptr>> \o PathFrom(m, getPtr(node, nodeLookupLE(node, key)), key, fuel - 1)

PathFrom(m, ptr, key, fuel) == PathDown(m, ptr, treeGet(m, ptr), key, fuel)

PathTo(m, key) ==
    IF m.root = 0 THEN <<>> ELSE PathFrom(m, m.root, key, Cardinality(DOMAIN m.pages))

\* the ids the del callback was called with, in the order of the calls
Deleted(log) == SelectSeq(log, LAMBDA e : e.cb = "del")

SamePages(dels, path) ==
    /\ Len(dels) = Len(path)
    /\ \A i \in DOMAIN dels : dels[i].ptr = path[i]

\* C19: the tree calls del and get only on ids that are allocated, never del
\* twice on one id, and an insert schedules for deletion exactly the pages on
\* the path from the root to the leaf.
C19_CallbacksConsistent ==
    [][c'.calls # c.calls =>
          /\ c'.err \notin AssertionErrors
          /\ (clast'.op = "add" /\ c'.err = "") =>
                SamePages(Deleted(clast'.log), PathTo(ContainerMachine, clast'.key))]_vars

\* an insert into a tree that has a root
C19_Witness ==
    /\ clast.op = "add" /\ c.err = ""
    /\ Len(Deleted(clast.log)) = 1
    /\ nkeys(c.pages[c.root]) > 2

\* ------------------------------------------------------------------------
\* FreeList.Update on free lists of every content
\* ------------------------------------------------------------------------
\* the pages 1..MaxFreePages of the file can be on the list or be freed
MaxFreePages == 3
\* calls of Update per behaviour
MaxUpdates == 2

\* the sequences without repetition over the subsets of P
FreedLists(P) == UNION {Orders(S) : S \in SUBSET P}

\* a store of MaxFreePages + 1 pages with an empty free list
FreeBase ==
    Machine([ZeroDB EXCEPT !.flushed = MaxFreePages + 1, !.updNil = FALSE,
                           !.mfile = (MaxFreePages + 1) * BTREE_PAGE_SIZE,
                           !.mtotal = MMAP_INIT_SIZE,
                           !.chunks = <<[off |-> 0, len |-> MMAP_INIT_SIZE]>>],
            FileOf(MaxFreePages + 1, <<>>))

\* the store between two commits, its counters at zero
Idle(m) == [m EXCEPT !.nfree = 0, !.nappend = 0]

StartsAt(m) == db = StructOf(Idle(m)) /\ file = m.file

FreeInit ==
    /\ \E freed \in FreedLists(1..MaxFreePages) : StartsAt(flushPages(FreeBase, freed))
    /\ pc = "open" /\ last = NoOp /\ nops = 0
    /\ c = NewContainer /\ clast = NoCall

\* the pointers stored in the nodes of the list from ptr on, head first
RECURSIVE ListedFrom(_, _, _)

ListedIn(m, node, fuel) ==
    [i \in 1..flnSize(node) |-> flnPtr(node, i - 1)] \o ListedFrom(m, flnNext(node), fuel - 1)

ListedFrom(m, ptr, fuel) ==
    IF ptr = 0 \/ fuel = 0 THEN <<>> ELSE ListedIn(m, pageGet(m, ptr), fuel)

Listed(m) == ListedFrom(m, m.head, m.flushed)

\* the ids of the nodes of the list
RECURSIVE NodesFrom(_, _, _)

NodesAfter(m, ptr, node, fuel) == {ptr} \cup NodesFrom(m, flnNext(node), fuel - 1)

NodesFrom(m, ptr, fuel) ==
    IF ptr = 0 \/ fuel = 0 THEN {} ELSE NodesAfter(m, ptr, pageGet(m, ptr), fuel)

ListNodes(m) == NodesFrom(m, m.head, m.flushed)

\* the pages that are neither on the list nor a node of it
Unlisted(m) ==
    (1..(m.flushed - 1)) \ ({Listed(m)[i] : i \in DOMAIN Listed(m)} \cup ListNodes(m))

\* free.Update(popn, freed) as writePages calls it, and the rest of the
\* commit; m is the machine flushPages left
Updated(popn, freed, m) ==
    /\ db' = IF m.err # "" THEN db ELSE StructOf(Idle(m))
    /\ file' = IF m.err # "" THEN file ELSE m.file
    /\ pc' = IF m.err # "" THEN "dead" ELSE "open"
    /\ last' = [NoOp EXCEPT !.op = "update", !.ret = popn, !.key = freed,
                            !.err = m.err, !.log = m.log, !.was = Was]
    /\ nops' = nops + 1
    /\ UNCHANGED <<c, clast>>

FreeUpdate(popn, freed) ==
    /\ pc = "open"
    /\ nops < MaxUpdates
    /\ Updated(popn, freed, flushPages([KVMachine EXCEPT !.nfree = popn], freed))

FreeNext ==
    \E popn \in 0..FreeTotal(KVMachine), freed \in FreedLists(Unlisted(KVMachine)) :
        FreeUpdate(popn, freed)

\* the free list under Update
SpecFree == FreeInit /\ [][FreeNext]_vars

Members(s) == {s[i] : i \in DOMAIN s}

\* what Update has to do to the list `before`, given the ids get(0..popn-1)
\* answered, the ids freed, the list `after` and the nodes of it
UpdateEffect(popped, freed, before, after, nodes) ==
    /\ popped \cap Members(after) = {}
    /\ freed \subseteq Members(after)
    /\ \A id \in Members(before) \ popped : id \in Members(after) \/ id \in nodes
    /\ \A i, j \in DOMAIN after : after[i] = after[j] => i = j

Popped(m, popn) == {FreeGet(m, n) : n \in 0..(popn - 1)}

\* C20: after free.Update(popn, freed), for every 0 <= popn <= total and every
\* list freed: no id that get(0..popn-1) answered before is on the list, every
\* id of freed is, every id that was listed and not popped is on the list or
\* is the id of a node of it, and no id is listed twice.
C20_UpdateEffect ==
    [][Called("update") =>
          /\ last'.err = ""
          /\ UpdateEffect(Popped(KVMachine, last'.ret), Members(last'.key),
                          Listed(KVMachine), Listed(Machine(db', file')),
                          ListNodes(Machine(db', file')))]_vars

\* ------------------------------------------------------------------------
\* The layout of a free-list node
\* ------------------------------------------------------------------------
\* the number of page ids a slot is given
MaxPtr == 2

\* page ids that differ from every size and total of a node
SlotPtrs == {1000 + k : k \in 1..MaxPtr}

\* a slot of a node and the id to store in it
SlotInput(idx, ptr) == [NoOp EXCEPT !.op = "slot", !.ret = idx, !.val = ptr]

LayoutInit ==
    /\ \E idx \in 0..(FREE_LIST_CAP - 1), ptr \in SlotPtrs : last = SlotInput(idx, ptr)
    /\ StartsAt(FreeBase)
    /\ pc = "open" /\ nops = 0
    /\ c = NewContainer /\ clast = NoCall

\* a node of idx + 1 slots with its three header fields set
HeadedNode(idx, next) == flnSetTotal(flnSetHeader(make(BTREE_PAGE_SIZE), U16(idx + 1), next), idx + 1)

\* the node is kept as the staged page db.page.flushed
SlotSet(node) ==
    /\ db' = IF node.err # "" THEN db ELSE StructOf(Stage(KVMachine, db.flushed, node))
    /\ last' = [last EXCEPT !.op = "flnSetPtr", !.err = node.err]
    /\ nops' = nops + 1
    /\ UNCHANGED <<file, pc, c, clast>>

\* flnSetPtr(node, idx, ptr) on a node with its header set
SetSlot ==
    /\ nops = 0
    /\ SlotSet(flnSetPtr(HeadedNode(last.ret, db.flushed - 1), last.ret, last.val))

NodePushed(m) ==
    /\ db' = IF m.err # "" THEN db ELSE StructOf(m)
    /\ last' = [last EXCEPT !.op = "flPush", !.err = m.err, !.log = m.log]
    /\ nops' = nops + 1
    /\ UNCHANGED <<file, pc, c, clast>>

\* flPush(fl, freed, nil) for a freed list that fills idx + 1 slots
FillNode ==
    /\ nops = 0
    /\ NodePushed(flPush(KVMachine, [i \in 1..(last.ret + 1) |-> last.val + i], <<>>))

LayoutNext == SetSlot \/ FillNode

\* one slot of a free-list node written, or one node filled by flPush
SpecLayout == LayoutInit /\ [][LayoutNext]_vars

\* the node after the write: the slot holds ptr and the header is as it was
SlotHolds(node, idx, ptr, next) ==
    /\ flnPtr(node, idx) = ptr
    /\ flnSize(node) = idx + 1
    /\ TotalOf(node) = idx + 1
    /\ flnNext(node) = next

\* the 8 bytes of a slot lie in the page and off the fields the code reads
\* as size, total and next
SlotInPage(at) ==
    /\ 0 <= at /\ at + 8 <= BTREE_PAGE_SIZE
    /\ \A f \in {[at |-> 16, n |-> 2], [at |-> 32, n |-> 8], [at |-> 96, n |-> 8]} :
          at + 8 <= f.at \/ f.at + f.n <= at

\* C22: for every slot index in [0, FREE_LIST_CAP) the 8 bytes flnSetPtr
\* writes and flnPtr reads lie in the 4096-byte page and overlap none of size,
\* total and next, and flPush writes a node of up to FREE_LIST_CAP pointers
\* without running past the page.
C22_LayoutFitsPage ==
    /\ last.op \in {"flnSetPtr", "flPush"} =>
          last.err = "" /\ SlotInPage(flnPtrOffset(last.ret))
    /\ last.op = "flnSetPtr" =>
          SlotHolds(db.updates[db.flushed], last.ret, last.val, db.flushed - 1)
    /\ last.op = "flPush" => flnSize(db.updates[db.flushed]) = last.ret + 1

\* ------------------------------------------------------------------------
\* FreeList.Update on a list whose head node is nearly full
\* ------------------------------------------------------------------------
\* the longest freed list given to Update
MaxFreed == 18
\* the head node holds between FullSlots - MaxShort and FullSlots pointers
MaxShort == 1
\* the largest popn given to Update
MaxPop == 2

\* the number of slots that lie inside a page
FullSlots == (BTREE_PAGE_SIZE - flnPtrOffset(0)) \div 8

\* a store of npages pages with an empty free list
FullBase(npages) ==
    [FreeBase EXCEPT !.flushed = npages, !.mfile = npages * BTREE_PAGE_SIZE,
                     !.file = FileOf(npages, <<>>)]

\* the pages 1..size freed by one commit: a list of one node of `size` slots
FullInit ==
    /\ \E size \in (FullSlots - MaxShort)..FullSlots :
          StartsAt(flushPages(FullBase(size + MaxFreed + 1), [i \in 1..size |-> i]))
    /\ pc = "open" /\ last = NoOp /\ nops = 0
    /\ c = NewContainer /\ clast = NoCall

\* free.Update(popn, freed) with the first nfreed pages that are not listed
FullUpdate(popn, nfreed) ==
    /\ pc = "open"
    /\ nops = 0
    /\ Updated(popn, [i \in 1..nfreed |-> FreeTotal(KVMachine) + i],
               flushPages([KVMachine EXCEPT !.nfree = popn],
                          [i \in 1..nfreed |-> FreeTotal(KVMachine) + i]))

FullNext == \E popn \in 0..MaxPop, nfreed \in 0..MaxFreed : FullUpdate(popn, nfreed)

SpecFull == FullInit /\ [][FullNext]_vars

\* C21: free.Update(popn, freed) on a well-formed list, popn <= total, runs
\* to its end: neither "Update: invalid state" nor flPush's "all pages not
\* reused from the list" nor any other panic ends it, as flPush builds a node
\* for every id collected in reuse.
C21_UpdateNeverAborts == last.op = "update" => last.err = ""

\* ------------------------------------------------------------------------
\* splitNode on the node one insertion leaves
\* ------------------------------------------------------------------------
\* the leaf inserted into holds between FullLeaf - MaxUnder and FullLeaf slots
MaxUnder == 8

\* the largest slot count whose leaf is at most a page long
FullLeaf == (BTREE_PAGE_SIZE - HEADER) \div (8 + 2)

SplitLeaves ==
    {GrownLeaf(n, key, val) : n \in (FullLeaf - MaxUnder)..FullLeaf, key \in Keys, val \in Vals}

SplitInit ==
    /\ \E leaf \in SplitLeaves : c = [NewContainer EXCEPT !.root = 1, !.pages = <<leaf>>]
    /\ clast = NoCall
    /\ KVInit

\* the nodes splitNode returned are kept as the pages 1..nsplit, the node it
\* was given as the log of the call
SplitInto(old, idx, key, val, nodes) ==
    /\ c' = [c EXCEPT !.pages = nodes, !.err = nodes[1].err, !.calls = @ + 1]
    /\ clast' = [NoCall EXCEPT !.op = "split", !.key = key, !.val = val,
                               !.ret = idx, !.log = <<old>>]
    /\ UNCHANGED <<db, file, pc, last, nops>>

SplitOf(old, idx, key, val) == SplitInto(old, idx, key, val, splitNode(old))

\* leafInsert(new, old, idx, key, val) into a buffer of two pages, then
\* splitNode(new), as treeInsert and nodeInsert do
InsertThenSplit(idx, key, val) ==
    /\ c.calls = 0
    /\ SplitOf(leafInsert(make(2 * BTREE_PAGE_SIZE), c.pages[1], idx, key, val), idx, key, val)

SplitNext ==
    \E key \in Keys, val \in Vals : InsertThenSplit(0, key, val) \/ InsertThenSplit(nkeys(c.pages[1]), key, val)

SpecSplit == SplitInit /\ [][SplitNext]_vars

\* the entries of a node, slot by slot
Entries(node) ==
    [i \in 1..nkeys(node) |-> <<getPtr(node, i - 1), getKey(node, i - 1), getVal(node, i - 1)>>]

RECURSIVE EntriesOf(_, _)
EntriesOf(nodes, k) == IF k = 0 THEN <<>> ELSE EntriesOf(nodes, k - 1) \o Entries(nodes[k])

SplitResult(old, nodes, nsplit) ==
    /\ nsplit \in 1..3
    /\ nsplit = 1 <=> nbytes(old) <= BTREE_PAGE_SIZE
    /\ \A i \in 1..nsplit : nbytes(nodes[i]) \in 0..BTREE_PAGE_SIZE /\ nkeys(nodes[i]) >= 1
    /\ EntriesOf(nodes, nsplit) = Entries(old)

\* C23: splitNode(old), old the node one insertion into a node of at most a
\* page leaves, returns 1, 2 or 3 nodes, [old] iff old.nbytes <= P; every node
\* returned is at most P bytes long and holds a key; the entries of the nodes,
\* left to right, are those of old in the same order with the same pointers.
C23_SplitResult ==
    clast.op = "split" => c.err = "" /\ SplitResult(clast.log[1], c.pages, Len(c.pages))

\* ------------------------------------------------------------------------
\* nodeLookupLE on nodes with ascending keys
\* ------------------------------------------------------------------------
\* the bytes the keys of a looked-up node are made of
MaxByte == 2
\* the most keys such a node holds after its slot 0
MaxNodeKeys == 3

LookupKeys == {<<a>> : a \in 1..MaxByte} \cup {<<a, b>> : a, b \in 1..MaxByte}

\* the keys of S in ascending order
Ascending(S) ==
    CHOOSE s \in Orders(S) : \A i, j \in DOMAIN s : i < j => bytesCompare(s[i], s[j]) < 0

\* the page of a node in the format of bnode.go: the header, a zero pointer
\* per key, the offset of the end of each pair, the pairs (each with the value
\* <<7>>)
RECURSIVE PairsFrom(_, _, _, _)
PairsFrom(node, keys, i, off) ==
    IF i > Len(keys) THEN node
    ELSE PairsFrom(PutAt(PutKV(node, kvPosAt(node, Len(keys), off), keys[i], <<7>>),
                         offsetPos(node, i), Le16(off + 4 + Len(keys[i]) + 1)),
                   keys, i + 1, off + 4 + Len(keys[i]) + 1)

NodeOf(keys) ==
    PairsFrom(setHeader(make(BTREE_PAGE_SIZE), BNODE_LEAF, Len(keys)), keys, 1, 0)

\* slot 0 holds the empty key or a key above every other
LookupNodes ==
    {NodeOf(<<k0>> \o Ascending(S)) :
        k0 \in {<<>>, <<255>>},
        S \in {T \in SUBSET LookupKeys : Cardinality(T) <= MaxNodeKeys}}

LookupInit ==
    /\ \E node \in LookupNodes : c = [NewContainer EXCEPT !.root = 1, !.pages = <<node>>]
    /\ clast = NoCall
    /\ KVInit

\* nodeLookupLE(node, key)
Lookup(key) ==
    /\ c.calls = 0
    /\ c' = [c EXCEPT !.calls = @ + 1]
    /\ clast' = [NoCall EXCEPT !.op = "lookup", !.key = key,
                               !.ret = nodeLookupLE(c.pages[1], key)]
    /\ UNCHANGED <<db, file, pc, last, nops>>

LookupNext == \E key \in LookupKeys : Lookup(key)

SpecLookup == LookupInit /\ [][LookupNext]_vars

\* the slots from 1 on whose key is at most key
SlotsLE(node, key) == {j \in 1..(nkeys(node) - 1) : bytesCompare(getKey(node, j), key) <= 0}

LargestLE(S) == IF S = {} THEN 0 ELSE CHOOSE j \in S : \A k \in S : k <= j

\* C24: on a node with ascending keys nodeLookupLE answers an index in
\* [0, nkeys): the largest index from 1 on whose key is at most the search key
\* (the equal key on a tie), 0 when there is none; the key of slot 0 has no
\* part in it.
C24_LookupLE ==
    clast.op = "lookup" =>
        /\ clast.ret \in 0..(nkeys(c.pages[1]) - 1)
        /\ clast.ret = LargestLE(SlotsLE(c.pages[1], clast.key))

\* a search key strictly between two keys of a node whose slot 0 is above both
C24_Witness ==
    /\ clast.op = "lookup"
    /\ clast.ret >= 1 /\ clast.ret + 1 < nkeys(c.pages[1])
    /\ bytesCompare(getKey(c.pages[1], clast.ret), clast.key) < 0
    /\ bytesCompare(getKey(c.pages[1], 0), clast.key) > 0

\* a search key equal to a key of the node
C24_Tie ==
    /\ clast.op = "lookup"
    /\ clast.ret >= 1
    /\ getKey(c.pages[1], clast.ret) = clast.key

\* ------------------------------------------------------------------------
\* The node codec: setPtr, setOffSet, nodeAppendKV
\* ------------------------------------------------------------------------
\* the node written to is kept as page 1, the node before the call as the log
Wrote(op, idx, key, val, node) ==
    /\ c.calls = 0
    /\ c' = [c EXCEPT !.pages = <<node>>, !.err = node.err, !.calls = @ + 1]
    /\ clast' = [NoCall EXCEPT !.op = op, !.ret = idx, !.key = key, !.val = val,
                               !.log = <<c.pages[1]>>]
    /\ UNCHANGED <<db, file, pc, last, nops>>

\* node.setPtr(idx, ptr)
SetPtr(idx, ptr) == Wrote("setPtr", idx, <<>>, ptr, setPtr(c.pages[1], idx, ptr))

\* node.setOffSet(idx, offset)
SetOffSet(idx, offset) == Wrote("setOffSet", idx, <<>>, offset, setOffSet(c.pages[1], idx, offset))

\* nodeAppendKV(node, idx, ptr, key, val) at the last slot of the node; the
\* pointer is kept in front of the value
AppendKV(idx, ptr, key, val) ==
    Wrote("nodeAppendKV", idx, key, <<ptr>> \o val,
          nodeAppendKV(c.pages[1], idx, ptr, key, val))

CodecNext ==
    \/ \E idx \in 0..(nkeys(c.pages[1]) - 1), ptr \in SlotPtrs : SetPtr(idx, ptr)
    \/ \E idx \in 1..nkeys(c.pages[1]), ptr \in SlotPtrs : SetOffSet(idx, ptr)
    \/ \E ptr \in SlotPtrs, key \in Keys, val \in Vals :
          AppendKV(nkeys(c.pages[1]) - 1, ptr, key, val)

\* one write of the codec on a node in the format of bnode.go
SpecCodec == LookupInit /\ [][CodecNext]_vars

\* the slots other than idx are as they were
OtherSlots(node, old, idx) ==
    /\ nkeys(node) = nkeys(old)
    /\ \A j \in 0..(nkeys(old) - 1) :
          j # idx => /\ getPtr(node, j) = getPtr(old, j)
                     /\ getKey(node, j) = getKey(old, j)
                     /\ getVal(node, j) = getVal(old, j)

\* what nodeAppendKV has to leave at slot idx
PairStored(node, old, idx, ptr, key, val) ==
    /\ getPtr(node, idx) = ptr
    /\ getKey(node, idx) = key
    /\ getVal(node, idx) = val
    /\ getOffSet(node, idx + 1) = getOffSet(node, idx) + 4 + Len(key) + Len(val)
    /\ OtherSlots(node, old, idx)

\* C25: getPtr(i) after setPtr(i, v) is v for i in [0, nkeys); getOffSet(i)
\* after setOffSet(i, o) is o for i in [1, nkeys]; getOffSet(0) is 0; after
\* nodeAppendKV(node, i, ptr, key, val) slot i holds ptr, key and val, the
\* offset of slot i + 1 is that of slot i plus 4 + |key| + |val|, and no other
\* slot has changed.
C25_CodecRoundTrip ==
    /\ getOffSet(c.pages[1], 0) = 0
    /\ clast.op \in {"setPtr", "setOffSet", "nodeAppendKV"} => c.err = ""
    /\ clast.op = "setPtr" => getPtr(c.pages[1], clast.ret) = clast.val
    /\ clast.op = "setOffSet" => getOffSet(c.pages[1], clast.ret) = clast.val
    /\ clast.op = "nodeAppendKV" =>
          PairStored(c.pages[1], clast.log[1], clast.ret, Head(clast.val), clast.key,
                     Tail(clast.val))

\* ------------------------------------------------------------------------
\* nodeReplaceKidN on internal nodes
\* ------------------------------------------------------------------------
\* the internal node whose kid is replaced
InnerNodes == {setHeader(node, BNODE_NODE, nkeys(node)) : node \in LookupNodes}

\* the 1 to 3 nodes a split leaves
KidLists ==
    {SubSeq(<<NodeOf(<<<<1>>>>), NodeOf(<<<<1, 1>>>>), NodeOf(<<<<2>>>>)>>, 1, k) : k \in 1..3}

ReplaceInit ==
    /\ \E node \in InnerNodes : c = [NewContainer EXCEPT !.root = 1, !.pages = <<node>>]
    /\ clast = NoCall
    /\ KVInit

\* r is what nodeReplaceKidN left: the machine and the new node
KidReplaced(idx, kids, r) ==
    /\ c' = [c EXCEPT !.pages = r.m.pages, !.err = r.m.err, !.calls = @ + 1]
    /\ clast' = [NoCall EXCEPT !.op = "replace", !.ret = idx, !.key = kids,
                               !.val = <<c.pages[1], r.node>>, !.log = r.m.log]
    /\ UNCHANGED <<db, file, pc, last, nops>>

\* nodeReplaceKidN(tree, new, old, idx, kids...) with new as treeInsert makes it
ReplaceKid(idx, kids) ==
    /\ c.calls = 0
    /\ KidReplaced(idx, kids,
                   nodeReplaceKidN(ContainerMachine, make(2 * BTREE_PAGE_SIZE), c.pages[1],
                                   idx, kids))

ReplaceNext == \E idx \in 0..(nkeys(c.pages[1]) - 1), kids \in KidLists : ReplaceKid(idx, kids)

SpecReplace == ReplaceInit /\ [][ReplaceNext]_vars

SameSlot(new, j, old, i) ==
    getPtr(new, j) = getPtr(old, i) /\ getKey(new, j) = getKey(old, i)

\* the node the rebuild has to leave; ptrs are the pages tree.new answered
RebuiltNode(new, old, idx, kids, ptrs) ==
    /\ nkeys(new) = nkeys(old) + Len(kids) - 1
    /\ Len(ptrs) = Len(kids)
    /\ \A j \in 0..(idx - 1) : SameSlot(new, j, old, j)
    /\ \A i \in DOMAIN kids :
          getPtr(new, idx + i - 1) = ptrs[i].ptr /\ getKey(new, idx + i - 1) = getKey(kids[i], 0)
    /\ \A j \in (idx + 1)..(nkeys(old) - 1) : SameSlot(new, j + Len(kids) - 1, old, j)

\* C26: nodeReplaceKidN(tree, new, old, idx, kids) with 1 to 3 kids, for every
\* idx in [0, old.nkeys), runs to its end and leaves a node of old.nkeys + k - 1
\* entries: those of old before idx, the k entries of the new pages keyed by
\* their first keys, and the old.nkeys - idx - 1 entries of old after idx.
C26_ParentRebuild ==
    clast.op = "replace" =>
        /\ c.err = ""
        /\ RebuiltNode(clast.val[2], clast.val[1], clast.ret, clast.key,
                       SelectSeq(clast.log, LAMBDA e : e.cb = "new"))

\* ------------------------------------------------------------------------
\* shouldMerge and the merge cases of nodeDelete
\* ------------------------------------------------------------------------
\* the most kids of the parent
MaxKids == 3

\* leaves of 20, 53, 1035 and 4064 bytes: under a quarter of a page, over it,
\* and large enough that a merge does not fit
KidShapes ==
    {NodeOf(<<<<1>>>>), NodeOf(<<<<1>>, <<1, 1>>, <<2>>>>), NodeOf(<<<<1>>, Filled(1000, 2)>>),
     NodeOf(<<Filled(1000, 1), Filled(1000, 2), Filled(1000, 3), Filled(1000, 4)>>)}

\* the nodes treeDelete can hand back: the shapes of at most 1035 bytes
UpdatedShapes == {kid \in KidShapes : nkeys(kid) < 4}

\* the pointers i + 1 in the slots i < n of node
RECURSIVE LinkedFrom(_, _, _)
LinkedFrom(node, i, n) ==
    IF i >= n THEN node
    ELSE LinkedFrom(PutAt(node, HEADER + 8 * i, Le64(i + 2)), i + 1, n)

\* an internal node over kids: slot i points at page i + 2 and holds the first
\* key of the kid
ParentOf(kids) ==
    LinkedFrom(setHeader(NodeOf([i \in DOMAIN kids |-> getKey(kids[i], 0)]),
                         BNODE_NODE, Len(kids)),
               0, Len(kids))

\* page 1 is the parent, pages 2.. its kids
MergeInit ==
    /\ \E n \in 1..MaxKids : \E kids \in [1..n -> KidShapes] :
          c = [NewContainer EXCEPT !.root = 1, !.pages = <<ParentOf(kids)>> \o kids]
    /\ clast = NoCall
    /\ KVInit

\* s is what shouldMerge answered, r what the switch on mergeDir left
KidMerged(idx, updated, s, r) ==
    /\ c' = [c EXCEPT !.pages = r.m.pages, !.err = r.m.err, !.calls = @ + 1]
    /\ clast' = [NoCall EXCEPT !.op = "merge", !.ret = s.dir, !.key = <<idx>>,
                               !.val = <<updated, r.node>>, !.log = r.m.log,
                               !.pre = c.pages]
    /\ UNCHANGED <<db, file, pc, last, nops>>

MergeFrom(d, idx, updated) ==
    KidMerged(idx, updated, shouldMerge(d, c.pages[1], idx, updated),
              KidDeleted(d, c.pages[1], idx, updated))

\* nodeDelete from tree.del(kptr) on, updated being what treeDelete returned
MergeKid(idx, updated) ==
    /\ c.calls = 0
    /\ MergeFrom(treeDel(ContainerMachine, getPtr(c.pages[1], idx)), idx, updated)

MergeNext ==
    \E idx \in 0..(nkeys(c.pages[1]) - 1), updated \in UpdatedShapes : MergeKid(idx, updated)

SpecMerge == MergeInit /\ [][MergeNext]_vars

\* the sibling at slot idx of the parent fits a page together with updated
FitsWith(pages, idx, updated) ==
    nbytes(pages[getPtr(pages[1], idx)]) + nbytes(updated) - HEADER <= BTREE_PAGE_SIZE

\* the direction the claim gives
MergeDir(pages, idx, updated) ==
    IF nbytes(updated) > BTREE_PAGE_SIZE \div 4 THEN 0
    ELSE IF idx > 0 /\ FitsWith(pages, idx - 1, updated) THEN -1
    ELSE IF idx + 1 < nkeys(pages[1]) /\ FitsWith(pages, idx + 1, updated) THEN 1
    ELSE 0

\* a merge: one page of at most P bytes made, the kid and its sibling under
\* the same parent deleted, the parent an entry shorter
MergeDone(parent, idx, dir, new, log) ==
    /\ nkeys(new) = nkeys(parent) - 1
    /\ Len(SelectSeq(log, LAMBDA e : e.cb = "new")) = 1
    /\ \A i \in DOMAIN log : log[i].cb = "new" => log[i].nbytes <= BTREE_PAGE_SIZE
    /\ Deleted(log) # <<>>
    /\ {Deleted(log)[i].ptr : i \in DOMAIN Deleted(log)}
          = {getPtr(parent, idx), getPtr(parent, idx + dir)}

C27_Left == clast.op = "merge" /\ c.err = "" /\ clast.ret = -1

\* no merge although updated is small: neither sibling fits
C27_NoRoom ==
    /\ clast.op = "merge" /\ clast.ret = 0
    /\ nbytes(clast.val[1]) <= BTREE_PAGE_SIZE \div 4
    /\ nkeys(clast.pre[1]) = 3 /\ clast.key[1] = 1

\* ------------------------------------------------------------------------
\* C28: the mapping and the file over a long run of commits
\* ------------------------------------------------------------------------
\* calls of the long run: enough commits for the file to pass the first
\* mapping of MMAP_INIT_SIZE bytes and for extendMmap to add a chunk
MaxLong == 134

\* KeyValue.Open on the file the run has built
LongOpen ==
    /\ pc = "closed"
    /\ nops < MaxLong
    /\ Opened(OpenMachine)
    /\ nops' = nops + 1
    /\ UNCHANGED <<file, c, clast>>

\* KeyValue.Del of a key the store does not hold: the first commit after Open,
\* the one that leaves updates a map
LongDel ==
    /\ pc = "open"
    /\ db.updNil
    /\ nops < MaxLong
    /\ Commit("del", <<1>>, <<>>, Delete(KVMachine, <<1>>))

\* KeyValue.Set of the same pair again and again: every commit appends
\* nappend pages, and nappend is never reset
LongSet ==
    /\ pc = "open"
    /\ ~db.updNil
    /\ nops < MaxLong
    /\ Commit("set", <<1>>, <<101>>, Insert(KVMachine, <<1>>, <<101>>))

LongNext == LongOpen \/ LongDel \/ LongSet

LongInit == KVInit /\ c = NewContainer /\ clast = NoCall

SpecLong == LongInit /\ [][LongNext]_vars

\* the sum of the lengths of the first j chunks
RECURSIVE ChunkSum(_, _)
ChunkSum(chunks, j) == IF j = 0 THEN 0 ELSE chunks[j].len + ChunkSum(chunks, j - 1)

\* mmap_total is the sum of the chunk lengths and chunk j starts where the
\* chunks before it end
ChunksInARow(d) ==
    /\ d.mtotal = ChunkSum(d.chunks, Len(d.chunks))
    /\ \A j \in 1..Len(d.chunks) : d.chunks[j].off = ChunkSum(d.chunks, j - 1)

\* after extendFile(n) and extendMmap(n) of a commit, n = flushed + nappend,
\* which is flushed once the commit is over: the file and the mapping hold n
\* pages and pageGetMapped finds each of them
PagesFound(m, f) ==
    /\ f.size >= m.flushed * BTREE_PAGE_SIZE
    /\ m.mtotal >= m.flushed * BTREE_PAGE_SIZE
    /\ \A ptr \in 0..(m.flushed - 1) : pageGetMapped(m, ptr).err = ""

CommitDone == pc = "open" /\ last.op \in {"set", "del"} /\ last.err = ""

\* no call ended on a page the chunks or the file do not hold
NoLostPage ==
    last.err \notin {"pageGetMapped: bad ptr",
                    "SIGBUS: mapped page beyond the end of the file"}

\* file_size is a multiple of the page size and the call did not shrink it
FileGrows == file.size % BTREE_PAGE_SIZE = 0 /\ last.was.size <= file.size

\* C28 as the claim states it: after Open and after every commit, mmap_total
\* is the sum of the chunk lengths, every chunk maps the file range that
\* starts where the chunks before it end, mmap_total >= file_size, the pages
\* below flushed + nappend of the commit are in the file and in the mapping
\* and pageGetMapped finds them (no call ends on a page it cannot find), and file_size is a multiple of the page size
\* that never decreases.
C28_MappingCoversFile ==
    /\ NoLostPage
    /\ (pc = "open" /\ last.err = "") =>
            /\ ChunksInARow(db)
            /\ db.mtotal >= file.size
            /\ CommitDone => PagesFound(KVMachine, file)
            /\ FileGrows

\* C28 as the code keeps it: the same without mmap_total >= file_size; the
\* mapping holds the pages in use (mmap_total >= flushed * P), while
\* extendFile grows the file by eighths and can leave it longer than the
\* mapping.
C28_MappingCoversPages ==
    /\ NoLostPage
    /\ (pc = "open" /\ last.err = "") =>
            /\ ChunksInARow(db)
            /\ CommitDone => PagesFound(KVMachine, file)
            /\ FileGrows

\* a commit has added the second chunk, to a file longer than the first one
C28_Witness ==
    /\ CommitDone
    /\ Len(db.chunks) = 2
    /\ db.chunks[2].off = MMAP_INIT_SIZE
    /\ file.size > MMAP_INIT_SIZE

====
